---------------------------- MODULE Spec2Model ----------------------------
(***************************************************************************)
(* A model of the RLZ library (rlz_lib.cc): the per-access-point RLZ       *)
(* store, the product event store, the machine deal code, and the ping     *)
(* response validation / parsing that mutates them.                        *)
(*                                                                         *)
(* C strings are modelled as sequences of one-character strings, so that   *)
(* find / substr / strlen are computed the way the code computes them.     *)
(* The NULL pointer is the value NULL.                                     *)
(***************************************************************************)
EXTENDS Integers, Sequences, FiniteSets, TLC

(***************************************************************************)
(* Characters.                                                             *)
(***************************************************************************)

\* The printable ASCII characters in code order: codes 32..95 and 97..126
\* (the grave accent, code 96, is not used by any string of the model).
AsciiLow ==
  << " ", "!", "\"", "#", "$", "%", "&", "'", "(", ")", "*", "+", ",", "-",
     ".", "/", "0", "1", "2", "3", "4", "5", "6", "7", "8", "9", ":", ";",
     "<", "=", ">", "?", "@", "A", "B", "C", "D", "E", "F", "G", "H", "I",
     "J", "K", "L", "M", "N", "O", "P", "Q", "R", "S", "T", "U", "V", "W",
     "X", "Y", "Z", "[", "\\", "]", "^", "_" >>

AsciiHigh ==
  << "a", "b", "c", "d", "e", "f", "g", "h", "i", "j", "k", "l", "m", "n",
     "o", "p", "q", "r", "s", "t", "u", "v", "w", "x", "y", "z", "{", "|",
     "}", "~" >>

\* The ASCII code of every character the model uses.
Ord ==
  [c \in {AsciiLow[i] : i \in 1..Len(AsciiLow)}
          \cup {AsciiHigh[i] : i \in 1..Len(AsciiHigh)}
          \cup {"\t", "\n", "\r"} |->
     IF c = "\t" THEN 9
     ELSE IF c = "\n" THEN 10
     ELSE IF c = "\r" THEN 13
     ELSE IF \E i \in 1..Len(AsciiLow) : AsciiLow[i] = c
          THEN 31 + (CHOOSE i \in 1..Len(AsciiLow) : AsciiLow[i] = c)
          ELSE 96 + (CHOOSE i \in 1..Len(AsciiHigh) : AsciiHigh[i] = c)]

IsAsciiAlpha(ch) ==
  \/ Ord[ch] >= Ord["a"] /\ Ord[ch] <= Ord["z"]
  \/ Ord[ch] >= Ord["A"] /\ Ord[ch] <= Ord["Z"]

IsAsciiDigit(ch) == Ord[ch] >= Ord["0"] /\ Ord[ch] <= Ord["9"]

\* base/string_util.h kWhitespaceASCII: TAB, LF, VT, FF, CR, SPACE.
IsAsciiWhitespace(ch) == Ord[ch] \in {9, 10, 11, 12, 13, 32}

(***************************************************************************)
(* std::string operations, with 0-based positions as in the code.          *)
(* A "not found" result (std::string::npos converted to int) is -1.        *)
(***************************************************************************)

size(s) == Len(s)

\* s.substr(pos, n): at most n characters from position pos.
substr(s, pos, n) ==
  LET last == IF pos + n > Len(s) THEN Len(s) ELSE pos + n
  IN  IF n <= 0 THEN <<>> ELSE SubSeq(s, pos + 1, last)

\* s.substr(pos): the rest of the string from position pos.
substrFrom(s, pos) == SubSeq(s, pos + 1, Len(s))

StartsWithASCII(s, prefix) ==
  /\ Len(s) >= Len(prefix)
  /\ SubSeq(s, 1, Len(prefix)) = prefix

\* s.find(pat, from): the first position >= from where pat occurs, or -1.
find(s, pat, from) ==
  LET hits == {i \in from..(Len(s) - Len(pat)) :
                 SubSeq(s, i + 1, i + Len(pat)) = pat}
  IN  IF hits = {} THEN -1
      ELSE CHOOSE i \in hits : \A j \in hits : i <= j

\* s.find_first_of(chars): the first position holding one of chars, or -1.
find_first_of(s, chars) ==
  LET hits == {i \in 0..(Len(s) - 1) : s[i + 1] \in chars}
  IN  IF hits = {} THEN -1
      ELSE CHOOSE i \in hits : \A j \in hits : i <= j

\* TrimWhitespaceASCII(s, TRIM_LEADING, &s)
TrimLeading(s) ==
  LET keep == {i \in 1..Len(s) : ~IsAsciiWhitespace(s[i])}
  IN  IF keep = {} THEN <<>>
      ELSE SubSeq(s, CHOOSE i \in keep : \A j \in keep : i <= j, Len(s))

\* TrimWhitespaceASCII(s, TRIM_ALL, &s)
TrimAll(s) ==
  LET keep == {i \in 1..Len(s) : ~IsAsciiWhitespace(s[i])}
  IN  IF keep = {} THEN <<>>
      ELSE SubSeq(s, CHOOSE i \in keep : \A j \in keep : i <= j,
                     CHOOSE i \in keep : \A j \in keep : i >= j)

(***************************************************************************)
(* 32-bit arithmetic and the checksum.  A 32-bit int is the pair           *)
(* <<high 16 bits, low 16 bits>> of its two's-complement bit pattern, so   *)
(* that equality of ints is equality of pairs and a shift past bit 31      *)
(* drops the bits, as it does in the code.                                 *)
(***************************************************************************)

Two16 == 65536

Word(hi, lo) == <<hi, lo>>

RECURSIVE XorBits(_, _, _)
\* Bitwise exclusive or of the low n bits of a and b.
XorBits(a, b, n) ==
  IF n = 0 THEN 0
  ELSE ((a + b) % 2) + 2 * XorBits(a \div 2, b \div 2, n - 1)

\* Exclusive or of two 4-bit values, tabulated.
XorNibble == [a \in 0..15 |-> [b \in 0..15 |-> XorBits(a, b, 4)]]

RECURSIVE Xor(_, _, _)
\* Exclusive or of two values of n hexadecimal digits.
Xor(a, b, n) ==
  IF n = 0 THEN 0
  ELSE XorNibble[a % 16][b % 16] + 16 * Xor(a \div 16, b \div 16, n - 1)

Xor32(a, b) == Word(Xor(a[1], b[1], 4), Xor(a[2], b[2], 4))

\* a >> k for an unsigned 32-bit a and k in {1, 8}.
ShiftRight(a, k) ==
  LET m == IF k = 1 THEN 2 ELSE 256
  IN  Word(a[1] \div m, (a[2] \div m) + (a[1] % m) * (Two16 \div m))

\* The reflected CRC-32 polynomial 0xEDB88320 (zlib).
Crc32Poly == Word(60856, 33568)

RECURSIVE Crc32Shift(_, _)
Crc32Shift(c, k) ==
  IF k = 0 THEN c
  ELSE Crc32Shift(IF c[2] % 2 = 1 THEN Xor32(ShiftRight(c, 1), Crc32Poly)
                                  ELSE ShiftRight(c, 1),
                  k - 1)

Crc32Table == [b \in 0..255 |-> Crc32Shift(Word(0, b), 8)]

\* One byte of the table-driven CRC-32 loop.
Crc32Byte(crc, ch) ==
  Xor32(Crc32Table[Xor(crc[2] % 256, Ord[ch], 2)], ShiftRight(crc, 8))

RECURSIVE Crc32Update(_, _, _, _)
\* The loop over the bytes s[lo..hi].  The range is split in halves and the
\* value after the first half is bound by a quantifier before the second
\* half starts, which keeps TLC's evaluation shallow; the result is that of
\* the byte-by-byte loop.
Crc32Update(crc, s, lo, hi) ==
  IF lo > hi THEN crc
  ELSE IF lo = hi THEN Crc32Byte(crc, s[lo])
  ELSE LET mid == (lo + hi) \div 2
       IN  CHOOSE r \in {Crc32Update(c, s, mid + 1, hi) :
                           c \in {Crc32Update(crc, s, lo, mid)}} : TRUE

\* Crc32(text, &crc): the CRC-32 of the bytes of text.
Crc32(text) ==
  Xor32(Crc32Update(Word(Two16 - 1, Two16 - 1), text, 1, Len(text)),
        Word(Two16 - 1, Two16 - 1))

(***************************************************************************)
(* Values of lib_values: the enumerations, their names, the limits and     *)
(* the CGI variable names.                                                 *)
(***************************************************************************)

\* The NULL pointer: a value that is no string (its element is no character).
NULL == <<"NULL">>

\* Maximum length of an RLZ value.  The library's value is scaled down so
\* that over-long values stay short.
kMaxRlzLength == 6

\* Maximum length of a ping response, scaled down in the same way.
kMaxPingResponseLength == 96

\* Maximum length of a deal confirmation code, scaled down in the same way.
kMaxDccLength == 4

\* Maximum length of a CGI string, scaled down in the same way; as in the
\* library, the events a product can have all fit in a string of this length.
kMaxCgiLength == 24

kRlzCgiVariable == <<"r", "l", "z">>
kEventsCgiVariable == <<"e", "v", "e", "n", "t", "s">>
kStatefulEventsCgiVariable ==
  <<"s", "t", "a", "t", "e", "f", "u", "l", "_">> \o kEventsCgiVariable
kDccCgiVariable == <<"d", "c", "c">>
kSetDccResponseVariable == <<"s", "e", "t", "_">> \o kDccCgiVariable
kEventsCgiSeparator == ","
kProtocolCgiArgument == <<"r", "e", "p", "=", "2">>
kRlzCgiSeparator == ","
kRlzCgiIndicator == ":"

\* The access points of the model: the two sentinels, two points that are
\* supported on Windows and one that is not.
AccessPoints ==
  {"NO_ACCESS_POINT", "IE_DEFAULT_SEARCH", "IETB_SEARCH_BOX",
   "MOBILE_IDLE_SCREEN_BLACKBERRY", "LAST_ACCESS_POINT"}

Events == {"INVALID_EVENT", "INSTALL", "FIRST_SEARCH"}

Products == {"IE_TOOLBAR", "CHROME"}

\* GetAccessPointName(point): "" for NO_ACCESS_POINT, NULL for a value that
\* names no access point.
GetAccessPointName(point) ==
  CASE point = "NO_ACCESS_POINT" -> <<>>
    [] point = "IE_DEFAULT_SEARCH" -> <<"I", "7">>
    [] point = "IETB_SEARCH_BOX" -> <<"T", "4">>
    [] point = "MOBILE_IDLE_SCREEN_BLACKBERRY" -> <<"H", "1">>
    [] OTHER -> NULL

\* The look-up, were it to compare only the first characters of the name
\* with each code.
GetAccessPointFromNameByPrefix(name) ==
  LET Begins(p) == /\ GetAccessPointName(p) # NULL
                   /\ Len(name) >= Len(GetAccessPointName(p))
                   /\ SubSeq(name, 1, Len(GetAccessPointName(p)))
                        = GetAccessPointName(p)
                   /\ (GetAccessPointName(p) = <<>> => name = <<>>)
  IN  IF name = NULL THEN [ok |-> FALSE, point |-> "NO_ACCESS_POINT"]
      ELSE IF \E p \in AccessPoints : Begins(p)
      THEN [ok |-> TRUE, point |-> CHOOSE p \in AccessPoints : Begins(p)]
      ELSE [ok |-> FALSE, point |-> "NO_ACCESS_POINT"]

\* GetAccessPointFromName(name, &point): the return value and *point.
GetAccessPointFromName(name) ==
  IF name = NULL THEN [ok |-> FALSE, point |-> "NO_ACCESS_POINT"]
  ELSE IF \E p \in AccessPoints : GetAccessPointName(p) = name
  THEN [ok |-> TRUE,
        point |-> CHOOSE p \in AccessPoints : GetAccessPointName(p) = name]
  ELSE [ok |-> FALSE, point |-> "NO_ACCESS_POINT"]

\* GetEventName(event): "" for INVALID_EVENT.
GetEventName(event) ==
  CASE event = "INVALID_EVENT" -> <<>>
    [] event = "INSTALL" -> <<"I">>
    [] event = "FIRST_SEARCH" -> <<"F">>
    [] OTHER -> NULL

\* GetEventFromName(name, &event): the return value and *event.
GetEventFromName(name) ==
  IF name = NULL THEN [ok |-> FALSE, event |-> "INVALID_EVENT"]
  ELSE IF \E e \in Events : GetEventName(e) = name
  THEN [ok |-> TRUE, event |-> CHOOSE e \in Events : GetEventName(e) = name]
  ELSE [ok |-> FALSE, event |-> "INVALID_EVENT"]

\* GetProductName(product): NULL for a value that names no product.
GetProductName(product) ==
  CASE product = "IE_TOOLBAR" -> <<"T">>
    [] product = "CHROME" -> <<"C">>
    [] OTHER -> NULL

(***************************************************************************)
(* Helper functions of the anonymous namespace.                            *)
(***************************************************************************)

\* IsAccessPointSupported without the cases of the mobile access points.
IsAccessPointSupportedOnMobile(point) ==
  CASE point \in {"NO_ACCESS_POINT", "LAST_ACCESS_POINT"} -> FALSE
    [] OTHER -> TRUE

IsAccessPointSupported(point) ==
  CASE point \in {"NO_ACCESS_POINT", "LAST_ACCESS_POINT",
                  "MOBILE_IDLE_SCREEN_BLACKBERRY",
                  "MOBILE_IDLE_SCREEN_WINMOB",
                  "MOBILE_IDLE_SCREEN_SYMBIAN"} -> FALSE
    [] OTHER -> TRUE

IsGoodRlzChar(ch) ==
  \/ IsAsciiAlpha(ch)
  \/ IsAsciiDigit(ch)
  \/ ch \in {"_", "-", "!", "@", "$", "*", "(", ")", ";", ".", "<", ">"}

\* NormalizeRlz copying every character as it is.
NormalizeRlzKeepingChars(raw_rlz) ==
  LET n == IF Len(raw_rlz) < kMaxRlzLength THEN Len(raw_rlz)
           ELSE kMaxRlzLength
  IN  [index \in 1..n |-> raw_rlz[index]]

\* NormalizeRlz(raw_rlz, normalized_rlz): the content of normalized_rlz.
NormalizeRlz(raw_rlz) ==
  LET n == IF Len(raw_rlz) < kMaxRlzLength THEN Len(raw_rlz)
           ELSE kMaxRlzLength
  IN  [index \in 1..n |->
         IF IsGoodRlzChar(raw_rlz[index]) THEN raw_rlz[index] ELSE "."]

(***************************************************************************)
(* The persistent store.  A store value st has the fields                  *)
(*   rlzs      the values of the RLZs key: a function from the access      *)
(*             points that have a value to that value;                     *)
(*   events    for each product, the value names of its Events key;        *)
(*   stateful  for each product, the value names of its StatefulEvents     *)
(*             key;                                                        *)
(*   dcc       the machine deal code, "" when none is stored.              *)
(* Each library function is an operator from the store before the call to  *)
(* the record [ret, st] of its return value and the store after it.  The   *)
(* arguments lock_failed and access are what LibMutex::failed() and        *)
(* UserKey::HasAccess() answer during the call: access is "write", "read"  *)
(* or "none".                                                              *)
(***************************************************************************)

Result(r, s) == [ret |-> r, st |-> s]

(***************************************************************************)
(* The keys of the store.  A key is the sequence of the names on its path  *)
(* from the user's key; st.keys is the set of the keys that exist.         *)
(***************************************************************************)

kGoogleKeyName == <<"Google">>
kGoogleCommonKeyName == <<"Google", "Common">>
kLibKeyName == <<"Google", "Common", "Rlz">>
kRlzsSubkeyName == "RLZs"
kEventsSubkeyName == "Events"
kStatefulEventsSubkeyName == "StatefulEvents"
kPingTimesSubkeyName == "PTimes"

\* The value of ping_times for a product that has no last ping time.
NoPingTime == -1

\* The subkey a field of the store is kept in.
SubkeyName(key) ==
  IF key = "events" THEN kEventsSubkeyName ELSE kStatefulEventsSubkeyName

\* kLibKeyName\subkey
LibSubkey(subkey) == kLibKeyName \o <<subkey>>

\* kLibKeyName\subkey\product_name
ProductKey(subkey, product) == kLibKeyName \o <<subkey, product>>

\* RegKey(root, key, KEY_WRITE): opening a key for writing creates it, and
\* the keys on its path, when missing.
RegKeyCreate(st, key) ==
  [st EXCEPT !.keys = @ \cup {SubSeq(key, 1, n) : n \in 1..Len(key)}]

\* RegKey::DeleteKey(name): the key goes, with the keys below it.
RegKeyDeleteKey(st, key) ==
  [st EXCEPT !.keys =
     {k \in @ : ~(Len(k) >= Len(key) /\ SubSeq(k, 1, Len(key)) = key)}]

\* RegistryKeyIterator::SubkeyCount()
SubkeyCount(st, key) ==
  Cardinality({k \in st.keys :
                 Len(k) = Len(key) + 1 /\ SubSeq(k, 1, Len(key)) = key})

\* RegistryValueIterator::ValueCount()
ValueCount(st, key) ==
  IF key = LibSubkey(kRlzsSubkeyName) THEN Cardinality(DOMAIN st.rlzs)
  ELSE IF key = LibSubkey(kPingTimesSubkeyName)
  THEN Cardinality({p \in DOMAIN st.ping_times :
                      st.ping_times[p] # NoPingTime})
  ELSE IF Len(key) = Len(kLibKeyName) + 2
  THEN IF key[Len(key) - 1] = kEventsSubkeyName
       THEN Cardinality(st.events[key[Len(key)]])
       ELSE Cardinality(st.stateful[key[Len(key)]])
  ELSE 0

\* DeleteKeyIfEmpty that looks at the subkeys of the key and not at its
\* values.
DeleteKeyIfEmptyOfSubkeys(st, key_name) ==
  IF key_name \notin st.keys THEN st
  ELSE IF SubkeyCount(st, key_name) > 0 THEN st
  ELSE RegKeyDeleteKey(st, key_name)

\* DeleteKeyIfEmpty(root_key, key_name): deletes a key if it exists and has
\* no subkeys or values.
DeleteKeyIfEmpty(st, key_name) ==
  IF key_name \notin st.keys THEN st
  ELSE IF SubkeyCount(st, key_name) > 0 THEN st
  ELSE IF ValueCount(st, key_name) > 0 THEN st
  ELSE RegKeyDeleteKey(st, key_name)

\* The check, were read access enough for writing.
HasAccessForReading(access, write_access) == access \in {"write", "read"}

\* UserKey::HasAccess(write_access)
HasAccess(access, write_access) ==
  IF write_access THEN access = "write" ELSE access \in {"write", "read"}

\* The return value of DeleteKeyIfEmpty(root_key, key_name): true when the
\* key does not exist or is not empty (nothing to do), and else the outcome
\* of the deletion, which succeeds for the caller with write access.
DeleteKeyIfEmptyReturns(st, key_name, access) ==
  IF key_name = NULL THEN FALSE
  ELSE IF key_name \notin st.keys THEN TRUE
  ELSE IF SubkeyCount(st, key_name) > 0 THEN TRUE
  ELSE IF ValueCount(st, key_name) > 0 THEN TRUE
  ELSE HasAccess(access, TRUE)

\* The value name of an event: point name followed by event name.
EventValueName(point, event) ==
  GetAccessPointName(point) \o GetEventName(event)

RecordStatefulEvent(st, product, point, event, lock_failed, access) ==
  IF lock_failed THEN Result(FALSE, st)
  ELSE IF ~HasAccess(access, TRUE) THEN Result(FALSE, st)
  ELSE IF GetProductName(product) = NULL THEN Result(FALSE, st)
  ELSE IF GetAccessPointName(point) = NULL \/ GetEventName(event) = NULL
  THEN Result(FALSE, st)
  ELSE IF GetAccessPointName(point) = <<>> \/ GetEventName(event) = <<>>
  THEN Result(FALSE, st)
  ELSE Result(TRUE,
         [RegKeyCreate(st, ProductKey(kStatefulEventsSubkeyName, product))
            EXCEPT !.stateful[product] = @ \cup {EventValueName(point, event)}])

RecordProductEventOp(st, product, point, event, access) ==
  IF ~HasAccess(access, TRUE) THEN Result(FALSE, st)
  ELSE IF GetProductName(product) = NULL THEN Result(FALSE, st)
  ELSE IF GetAccessPointName(point) = NULL \/ GetEventName(event) = NULL
  THEN Result(FALSE, st)
  ELSE IF GetAccessPointName(point) = <<>> \/ GetEventName(event) = <<>>
  THEN Result(FALSE, st)
  ELSE IF EventValueName(point, event) \in st.stateful[product]
  THEN Result(TRUE, st)
  ELSE Result(TRUE,
         [RegKeyCreate(st, ProductKey(kEventsSubkeyName, product))
            EXCEPT !.events[product] = @ \cup {EventValueName(point, event)}])

ClearProductEventOp(st, product, point, event, lock_failed, access) ==
  IF lock_failed THEN Result(FALSE, st)
  ELSE IF ~HasAccess(access, TRUE) THEN Result(FALSE, st)
  ELSE IF GetProductName(product) = NULL THEN Result(FALSE, st)
  ELSE IF GetAccessPointName(point) = NULL \/ GetEventName(event) = NULL
  THEN Result(FALSE, st)
  ELSE IF GetAccessPointName(point) = <<>> \/ GetEventName(event) = <<>>
  THEN Result(FALSE, st)
  ELSE LET deleted ==
             [RegKeyCreate(st, ProductKey(kEventsSubkeyName, product))
                EXCEPT !.events[product] = @ \ {EventValueName(point, event)}]
       IN  \* Verify deletion.
           IF EventValueName(point, event) \in deleted.events[product]
           THEN Result(FALSE, deleted)
           ELSE Result(TRUE, deleted)

\* ClearAllProductEventValues(product, key, sid), key being "events" or
\* "stateful".
ClearAllProductEventValues(st, product, key, lock_failed, access) ==
  IF lock_failed THEN Result(FALSE, st)
  ELSE IF ~HasAccess(access, TRUE) THEN Result(FALSE, st)
  ELSE IF GetProductName(product) = NULL THEN Result(FALSE, st)
  ELSE Result(TRUE,
         [RegKeyDeleteKey(RegKeyCreate(st, LibSubkey(SubkeyName(key))),
                          ProductKey(SubkeyName(key), product))
            EXCEPT ![key][product] = {}])

ClearAllProductEventsOp(st, product, lock_failed, access) ==
  LET first == ClearAllProductEventValues(st, product, "events",
                                          lock_failed, access)
      second == ClearAllProductEventValues(first.st, product, "stateful",
                                           lock_failed, access)
  IN  Result(first.ret /\ second.ret, second.st)

\* RegEnumValueA(key, index, name, &size, ...): values is the sequence of
\* the value names of the key in the order the registry enumerates them and
\* name_size the room at name.  The result, and the length of the name copied.
RegEnumValueA(values, index, name_size) ==
  IF index >= Len(values) THEN [result |-> "ERROR_NO_MORE_ITEMS", length |-> 0]
  ELSE IF Len(values[index + 1]) >= name_size
  THEN [result |-> "ERROR_MORE_DATA", length |-> 0]
  ELSE [result |-> "ERROR_SUCCESS", length |-> Len(values[index + 1])]

RECURSIVE EventsCgiLoop(_, _, _, _)

\* The loop with a separator before every event, the first one included.
EventsCgiLoopDividing(values, cgi_size, num_values, cgi) ==
  LET index == Len(cgi)
      divider == 1
      name_size == cgi_size - (index + divider)
      Enumerated(value) ==
        IF value.result = "ERROR_SUCCESS"
        THEN EventsCgiLoop(
               values, cgi_size, num_values + 1,
               cgi \o <<kEventsCgiSeparator>> \o values[num_values + 1])
        ELSE IF value.result = "ERROR_MORE_DATA"
        THEN [result |-> "ERROR_MORE_DATA", cgi |-> cgi]
        ELSE IF value.result = "ERROR_NO_MORE_ITEMS" /\ num_values > 0
        THEN [result |-> "ERROR_SUCCESS", cgi |-> cgi]
        ELSE [result |-> "ERROR_FILE_NOT_FOUND", cgi |-> cgi]
  IN  IF name_size <= 0 THEN [result |-> "ERROR_MORE_DATA", cgi |-> cgi]
      ELSE Enumerated(RegEnumValueA(values, num_values, name_size))

\* The loop of GetProductEventsAsCgiHelper that appends the events, entered
\* with the values num_values and cgi have at the top of an iteration; index
\* is the length of cgi.  The result and the string left in cgi.
EventsCgiLoop(values, cgi_size, num_values, cgi) ==
  LET index == Len(cgi)
      divider == IF num_values > 0 THEN 1 ELSE 0
      name_size == cgi_size - (index + divider)
      Enumerated(value) ==
        IF value.result = "ERROR_SUCCESS"
        THEN EventsCgiLoop(
               values, cgi_size, num_values + 1,
               cgi \o (IF divider = 1 THEN <<kEventsCgiSeparator>> ELSE <<>>)
                   \o values[num_values + 1])
        ELSE IF value.result = "ERROR_MORE_DATA"
        THEN [result |-> "ERROR_MORE_DATA", cgi |-> cgi]
        ELSE IF value.result = "ERROR_NO_MORE_ITEMS" /\ num_values > 0
        THEN [result |-> "ERROR_SUCCESS", cgi |-> cgi]
        ELSE [result |-> "ERROR_FILE_NOT_FOUND", cgi |-> cgi]
  IN  IF name_size <= 0 THEN [result |-> "ERROR_MORE_DATA", cgi |-> cgi]
      ELSE Enumerated(RegEnumValueA(values, num_values, name_size))

\* GetProductEventsAsCgiHelper(product, cgi, cgi_size, user_key): the result
\* and the string in cgi, which the caller has set to "".  values is the
\* sequence of the value names of the product's Events key in the order the
\* registry enumerates them.  A product without a name makes the function
\* return false, which is ERROR_SUCCESS, with the prefix in cgi.
GetProductEventsAsCgiHelper(product, cgi_size, values) ==
  LET cgi_arg == kEventsCgiVariable \o <<"=">>
  IN  IF cgi_size <= size(cgi_arg)
      THEN [result |-> "ERROR_MORE_DATA", cgi |-> <<>>]
      ELSE IF GetProductName(product) = NULL
      THEN [result |-> "ERROR_SUCCESS", cgi |-> cgi_arg]
      ELSE EventsCgiLoop(values, cgi_size, 0, cgi_arg)

\* GetProductEventsAsCgi without the reset of the buffer on failure.
GetProductEventsAsCgiOpKeepingBuffer(product, cgi_size, lock_failed, access, values) ==
  IF cgi_size <= 0 THEN [ret |-> FALSE, cgi |-> NULL]
  ELSE IF lock_failed THEN [ret |-> FALSE, cgi |-> <<>>]
  ELSE IF ~HasAccess(access, FALSE) THEN [ret |-> FALSE, cgi |-> <<>>]
  ELSE
    LET size_local == IF cgi_size <= kMaxCgiLength + 1 THEN cgi_size
                      ELSE kMaxCgiLength + 1
        Checked(helper) ==
          IF helper.result = "ERROR_MORE_DATA" /\ cgi_size >= kMaxCgiLength + 1
          THEN [ret |-> TRUE, cgi |-> helper.cgi]
          ELSE IF helper.result # "ERROR_SUCCESS"
          THEN [ret |-> FALSE, cgi |-> helper.cgi]
          ELSE [ret |-> TRUE, cgi |-> helper.cgi]
    IN  Checked(GetProductEventsAsCgiHelper(product, size_local, values))

\* GetProductEventsAsCgi(product, cgi, cgi_size, sid): the return value and
\* the string in cgi; the buffer is NULL when cgi_size is 0.
GetProductEventsAsCgiOp(product, cgi_size, lock_failed, access, values) ==
  IF cgi_size <= 0 THEN [ret |-> FALSE, cgi |-> NULL]
  ELSE IF lock_failed THEN [ret |-> FALSE, cgi |-> <<>>]
  ELSE IF ~HasAccess(access, FALSE) THEN [ret |-> FALSE, cgi |-> <<>>]
  ELSE
    LET size_local == IF cgi_size <= kMaxCgiLength + 1 THEN cgi_size
                      ELSE kMaxCgiLength + 1
        Checked(helper) ==
          IF helper.result = "ERROR_MORE_DATA" /\ cgi_size >= kMaxCgiLength + 1
          THEN [ret |-> TRUE, cgi |-> helper.cgi]
          ELSE IF helper.result # "ERROR_SUCCESS"
          THEN [ret |-> FALSE, cgi |-> <<>>]
          ELSE [ret |-> TRUE, cgi |-> helper.cgi]
    IN  Checked(GetProductEventsAsCgiHelper(product, size_local, values))

\* cgi[index] = ch, in the record of the buffer of a call: the cells of the
\* buffer (cell i of the buffer is cells[i + 1]), the indexes written, and
\* the values of cgi_size - (index + divider) computed.  A write outside of
\* the buffer is recorded and changes no cell.  The cell with the terminating
\* null character holds "NUL".
CgiWrite(w, index, ch) ==
  [w EXCEPT !.written = @ \cup {index},
            !.cells = IF index + 1 \in DOMAIN @
                      THEN [@ EXCEPT ![index + 1] = ch] ELSE @]

RECURSIVE CgiWriteName(_, _, _, _)
\* RegEnumValueA copying the characters name[i..] and the terminator to
\* cgi + index.
CgiWriteName(w, index, name, i) ==
  IF i > Len(name) THEN CgiWrite(w, index, "NUL")
  ELSE CgiWriteName(CgiWrite(w, index, name[i]), index + 1, name, i + 1)

RECURSIVE EventsCgiCells(_, _, _, _, _)
\* The loop of GetProductEventsAsCgiHelper that appends the events, on the
\* cells of the buffer, entered with the values num_values and index have at
\* the top of an iteration.  size is a DWORD: a difference below zero wraps
\* around to a large size (1000000 stands for 2^32).
EventsCgiCells(values, cgi_size, num_values, index, w) ==
  LET divider == IF num_values > 0 THEN 1 ELSE 0
      difference == cgi_size - (index + divider)
      name_size == IF difference < 0 THEN 1000000 + difference ELSE difference
      terminated == [CgiWrite(w, index, "NUL") EXCEPT
                       !.sizes = @ \cup {difference}]
      Enumerated(value) ==
        IF value.result = "ERROR_SUCCESS"
        THEN EventsCgiCells(
               values, cgi_size, num_values + 1,
               index + value.length + divider,
               LET named == CgiWriteName(terminated, index + divider,
                                         values[num_values + 1], 1)
               IN  IF divider = 1
                   THEN CgiWrite(named, index, kEventsCgiSeparator)
                   ELSE named)
        ELSE [result |-> IF value.result = "ERROR_MORE_DATA"
                         THEN "ERROR_MORE_DATA"
                         ELSE IF value.result = "ERROR_NO_MORE_ITEMS"
                                 /\ num_values > 0
                         THEN "ERROR_SUCCESS"
                         ELSE "ERROR_FILE_NOT_FOUND",
              w |-> CgiWrite(terminated, index, "NUL")]
  IN  IF name_size <= 0
      THEN [result |-> "ERROR_MORE_DATA", w |-> terminated]
      ELSE Enumerated(RegEnumValueA(values, num_values, name_size))

\* GetProductEventsAsCgi(product, cgi, cgi_size, sid) on the cells of the
\* buffer of cgi_size characters, each of which holds fill before the call:
\* the return value, the cells after the call, the indexes written and the
\* sizes computed.  key_valid tells whether the Events key of the product
\* exists; values is the sequence of its value names.
GetProductEventsAsCgiCells(product, cgi_size, lock_failed, access, values, key_valid, fill) ==
  LET buffer == [cells |-> [i \in 1..cgi_size |-> fill], written |-> {},
                 sizes |-> {}]
      cgi_arg == kEventsCgiVariable \o <<"=">>
      size_local == IF cgi_size <= kMaxCgiLength + 1 THEN cgi_size
                    ELSE kMaxCgiLength + 1
      Prefixed(w) ==
        [w EXCEPT !.written = @ \cup 0..(size(cgi_arg) - 1),
                  !.cells = [i \in DOMAIN @ |->
                               IF i <= size(cgi_arg) THEN cgi_arg[i]
                               ELSE @[i]]]
      Helper(w) ==
        IF size_local <= size(cgi_arg)
        THEN [result |-> "ERROR_MORE_DATA", w |-> w]
        ELSE IF GetProductName(product) = NULL
        THEN \* return false, which is ERROR_SUCCESS
             [result |-> "ERROR_SUCCESS", w |-> Prefixed(w)]
        ELSE IF ~key_valid
        THEN [result |-> "ERROR_PATH_NOT_FOUND", w |-> Prefixed(w)]
        ELSE EventsCgiCells(values, size_local, 0, size(cgi_arg), Prefixed(w))
      Checked(helper) ==
        IF helper.result = "ERROR_MORE_DATA" /\ cgi_size >= kMaxCgiLength + 1
        THEN [ret |-> TRUE, w |-> helper.w]
        ELSE IF helper.result # "ERROR_SUCCESS"
        THEN [ret |-> FALSE, w |-> CgiWrite(helper.w, 0, "NUL")]
        ELSE [ret |-> TRUE, w |-> helper.w]
  IN  IF cgi_size <= 0 THEN [ret |-> FALSE, w |-> buffer]
      ELSE IF lock_failed
      THEN [ret |-> FALSE, w |-> CgiWrite(buffer, 0, "NUL")]
      ELSE IF ~HasAccess(access, FALSE)
      THEN [ret |-> FALSE, w |-> CgiWrite(buffer, 0, "NUL")]
      ELSE Checked(Helper(CgiWrite(buffer, 0, "NUL")))

\* RegKeyReadValue(key, name, value, &size): whether the value was read,
\* the buffer content and the size reported back.
RegKeyReadValue(values, name, value_size) ==
  IF name \notin DOMAIN values
  THEN [ok |-> FALSE, value |-> <<>>, size |-> value_size]
  ELSE IF Len(values[name]) + 1 > value_size
  THEN [ok |-> FALSE, value |-> <<>>, size |-> Len(values[name]) + 1]
  ELSE [ok |-> TRUE, value |-> values[name], size |-> value_size]

\* GetAccessPointRlz without the check that the access point is supported.
GetAccessPointRlzOpUnchecked(st, point, rlz_size, lock_failed, access) ==
  IF rlz_size <= 0 THEN [ret |-> FALSE, rlz |-> NULL]
  ELSE IF lock_failed THEN [ret |-> FALSE, rlz |-> <<>>]
  ELSE IF ~HasAccess(access, FALSE) THEN [ret |-> FALSE, rlz |-> <<>>]
  ELSE IF GetAccessPointName(point) = NULL THEN [ret |-> FALSE, rlz |-> <<>>]
  ELSE LET read == RegKeyReadValue(st.rlzs, point, rlz_size)
       IN  IF ~read.ok
           THEN IF read.size > rlz_size THEN [ret |-> FALSE, rlz |-> <<>>]
                ELSE [ret |-> TRUE, rlz |-> <<>>]
           ELSE [ret |-> TRUE, rlz |-> read.value]

\* GetAccessPointRlz(point, rlz, rlz_size, sid): the return value and the
\* content of the buffer rlz; the buffer is NULL when rlz_size is 0.
GetAccessPointRlzOp(st, point, rlz_size, lock_failed, access) ==
  IF rlz_size <= 0 THEN [ret |-> FALSE, rlz |-> NULL]
  ELSE IF lock_failed THEN [ret |-> FALSE, rlz |-> <<>>]
  ELSE IF ~HasAccess(access, FALSE) THEN [ret |-> FALSE, rlz |-> <<>>]
  ELSE IF ~IsAccessPointSupported(point) THEN [ret |-> FALSE, rlz |-> <<>>]
  ELSE IF GetAccessPointName(point) = NULL THEN [ret |-> FALSE, rlz |-> <<>>]
  ELSE LET read == RegKeyReadValue(st.rlzs, point, rlz_size)
       IN  IF ~read.ok
           THEN IF read.size > rlz_size THEN [ret |-> FALSE, rlz |-> <<>>]
                ELSE [ret |-> TRUE, rlz |-> <<>>]
           ELSE [ret |-> TRUE, rlz |-> read.value]

\* SetAccessPointRlz writing new_rlz instead of normalized_rlz.
SetAccessPointRlzOpRaw(st, point, new_rlz, lock_failed, access) ==
  IF lock_failed THEN Result(FALSE, st)
  ELSE IF ~HasAccess(access, TRUE) THEN Result(FALSE, st)
  ELSE IF new_rlz = NULL THEN Result(FALSE, st)
  ELSE IF ~IsAccessPointSupported(point) THEN Result(FALSE, st)
  ELSE IF Len(new_rlz) > kMaxRlzLength THEN Result(FALSE, st)
  ELSE IF GetAccessPointName(point) = NULL THEN Result(FALSE, st)
  ELSE LET normalized_rlz == NormalizeRlz(new_rlz)
       IN  IF normalized_rlz = <<>>
           THEN \* Setting RLZ to empty == clearing.
                LET deleted ==
                      [st EXCEPT !.rlzs =
                         [p \in DOMAIN st.rlzs \ {point} |-> st.rlzs[p]]]
                IN  IF point \in DOMAIN deleted.rlzs
                    THEN Result(FALSE, deleted)
                    ELSE Result(TRUE, deleted)
           ELSE Result(TRUE,
                  [st EXCEPT !.rlzs =
                     [p \in DOMAIN st.rlzs \cup {point} |->
                        IF p = point THEN new_rlz ELSE st.rlzs[p]]])

\* SetAccessPointRlz writing the empty value instead of deleting the entry.
SetAccessPointRlzOpWritingEmpty(st, point, new_rlz, lock_failed, access) ==
  IF lock_failed THEN Result(FALSE, st)
  ELSE IF ~HasAccess(access, TRUE) THEN Result(FALSE, st)
  ELSE IF new_rlz = NULL THEN Result(FALSE, st)
  ELSE IF ~IsAccessPointSupported(point) THEN Result(FALSE, st)
  ELSE IF Len(new_rlz) > kMaxRlzLength THEN Result(FALSE, st)
  ELSE IF GetAccessPointName(point) = NULL THEN Result(FALSE, st)
  ELSE Result(TRUE,
         [st EXCEPT !.rlzs =
            [p \in DOMAIN st.rlzs \cup {point} |->
               IF p = point THEN NormalizeRlz(new_rlz) ELSE st.rlzs[p]]])

\* SetAccessPointRlz appending the new value to the stored one instead of
\* replacing it.
SetAccessPointRlzOpAppending(st, point, new_rlz, lock_failed, access) ==
  IF lock_failed THEN Result(FALSE, st)
  ELSE IF ~HasAccess(access, TRUE) THEN Result(FALSE, st)
  ELSE IF new_rlz = NULL THEN Result(FALSE, st)
  ELSE IF ~IsAccessPointSupported(point) THEN Result(FALSE, st)
  ELSE IF Len(new_rlz) > kMaxRlzLength THEN Result(FALSE, st)
  ELSE IF GetAccessPointName(point) = NULL THEN Result(FALSE, st)
  ELSE LET normalized_rlz == NormalizeRlz(new_rlz)
           opened == RegKeyCreate(st, LibSubkey(kRlzsSubkeyName))
       IN  IF normalized_rlz = <<>>
           THEN LET deleted ==
                      [opened EXCEPT !.rlzs =
                         [p \in DOMAIN st.rlzs \ {point} |-> st.rlzs[p]]]
                IN  IF point \in DOMAIN deleted.rlzs
                    THEN Result(FALSE, deleted)
                    ELSE Result(TRUE, deleted)
           ELSE Result(TRUE,
                  [opened EXCEPT !.rlzs =
                     [p \in DOMAIN st.rlzs \cup {point} |->
                        IF p # point THEN st.rlzs[p]
                        ELSE IF point \in DOMAIN st.rlzs
                        THEN st.rlzs[p] \o normalized_rlz
                        ELSE normalized_rlz]])

SetAccessPointRlzOp(st, point, new_rlz, lock_failed, access) ==
  IF lock_failed THEN Result(FALSE, st)
  ELSE IF ~HasAccess(access, TRUE) THEN Result(FALSE, st)
  ELSE IF new_rlz = NULL THEN Result(FALSE, st)
  ELSE IF ~IsAccessPointSupported(point) THEN Result(FALSE, st)
  ELSE IF Len(new_rlz) > kMaxRlzLength THEN Result(FALSE, st)
  ELSE IF GetAccessPointName(point) = NULL THEN Result(FALSE, st)
  ELSE LET normalized_rlz == NormalizeRlz(new_rlz)
           opened == RegKeyCreate(st, LibSubkey(kRlzsSubkeyName))
       IN  IF normalized_rlz = <<>>
           THEN \* Setting RLZ to empty == clearing.
                LET deleted ==
                      [opened EXCEPT !.rlzs =
                         [p \in DOMAIN st.rlzs \ {point} |-> st.rlzs[p]]]
                IN  IF point \in DOMAIN deleted.rlzs
                    THEN Result(FALSE, deleted)
                    ELSE Result(TRUE, deleted)
           ELSE Result(TRUE,
                  [opened EXCEPT !.rlzs =
                     [p \in DOMAIN st.rlzs \cup {point} |->
                        IF p = point THEN normalized_rlz ELSE st.rlzs[p]]])

(***************************************************************************)
(* The machine deal code (class MachineDealCode).                          *)
(***************************************************************************)

\* MachineDealCode::Set(dcc)
MachineDealCodeSet(st, dcc, lock_failed) ==
  IF lock_failed THEN Result(FALSE, st)
  ELSE IF dcc = NULL THEN Result(FALSE, st)
  ELSE IF Len(dcc) > kMaxDccLength THEN Result(FALSE, st)
  ELSE Result(TRUE, [st EXCEPT !.dcc = dcc])

\* MachineDealCode::Get(dcc, dcc_size): the return value and the string in
\* dcc.
MachineDealCodeGet(st, dcc_size) ==
  IF dcc_size <= 0 THEN [ret |-> FALSE, dcc |-> NULL]
  ELSE IF st.dcc = <<>> \/ Len(st.dcc) >= dcc_size
  THEN [ret |-> FALSE, dcc |-> <<>>]
  ELSE [ret |-> TRUE, dcc |-> st.dcc]

(***************************************************************************)
(* Ping response validation.                                               *)
(***************************************************************************)

HexDigits ==
  <<"0", "1", "2", "3", "4", "5", "6", "7", "8", "9",
    "a", "b", "c", "d", "e", "f">>

HexUpper == <<"A", "B", "C", "D", "E", "F">>

IsHexDigit(ch) ==
  \/ \E i \in 1..16 : HexDigits[i] = ch
  \/ \E i \in 1..6 : HexUpper[i] = ch

\* GetHexValue(ch, &digit) for a hex digit ch.
GetHexValue(ch) ==
  IF \E i \in 1..16 : HexDigits[i] = ch
  THEN (CHOOSE i \in 1..16 : HexDigits[i] = ch) - 1
  ELSE (CHOOSE i \in 1..6 : HexUpper[i] = ch) + 9

RECURSIVE HexDigitsLoop(_, _, _)
\* The loop, were it to pass over the characters that are no hex digits.
HexDigitsLoopSkipping(text, idx, number) ==
  IF idx > Len(text) THEN number
  ELSE IF ~IsHexDigit(text[idx]) THEN HexDigitsLoop(text, idx + 1, number)
  ELSE HexDigitsLoop(text, idx + 1,
         Word((number[1] * 16 + (number[2] \div 4096)) % Two16,
              ((number[2] * 16) % Two16) + GetHexValue(text[idx])))

\* The loop of HexStringToInteger from the character text[idx] on:
\* number = (number << 4) | digit for every hex digit, up to the first
\* other character.  The shift drops the bits past bit 31.
HexDigitsLoop(text, idx, number) ==
  IF idx > Len(text) THEN number
  ELSE IF ~IsHexDigit(text[idx]) THEN number
  ELSE HexDigitsLoop(text, idx + 1,
         Word((number[1] * 16 + (number[2] \div 4096)) % Two16,
              ((number[2] * 16) % Two16) + GetHexValue(text[idx])))

\* The text without a leading 0x.
SkipHexPrefix(text) ==
  IF Len(text) >= 2 /\ text[1] = "0" /\ text[2] \in {"x", "X"}
  THEN substrFrom(text, 2) ELSE text

\* HexStringToInteger(text): leading whitespace and an optional 0x are
\* skipped, then the hex digits are read.
HexStringToInteger(text) ==
  IF text = NULL THEN Word(0, 0)
  ELSE HexDigitsLoop(SkipHexPrefix(TrimLeading(text)), 1, Word(0, 0))

kChecksumLine == <<"c", "r", "c", "3", "2", ":", " ">>

\* IsPingResponseValid with the checksum taken over the message without the
\* newline that ends it.
IsPingResponseValidWithoutNewline(response) ==
  IF response = NULL \/ response = <<>>
  THEN [ret |-> FALSE, checksum_idx |-> -1]
  ELSE IF Len(response) > kMaxPingResponseLength
  THEN [ret |-> FALSE, checksum_idx |-> -1]
  ELSE
    LET found == find(response, <<"\n">> \o kChecksumLine, 0)
        checksum_param == IF found >= 0 THEN <<"\n">> \o kChecksumLine
                          ELSE kChecksumLine
    IN  IF found < 0 /\ ~StartsWithASCII(response, checksum_param)
        THEN [ret |-> FALSE, checksum_idx |-> -1]
        ELSE
          LET checksum_index == IF found >= 0 THEN found ELSE 0
              message == IF found >= 0 THEN substr(response, 0, found)
                         ELSE <<>>
              calculated_crc == Crc32(message)
              newline == find(response, <<"\n">>, checksum_index + 1)
              checksum_end == IF newline < 0 THEN size(response) ELSE newline
              checksum_begin == checksum_index + size(checksum_param)
              checksum == TrimAll(substr(response, checksum_begin,
                                         checksum_end - checksum_begin + 1))
          IN  [ret |-> calculated_crc = HexStringToInteger(checksum),
               checksum_idx |-> checksum_index]

\* IsPingResponseValid without the comparison of the two checksums.
IsPingResponseValidUncompared(response) ==
  IF response = NULL \/ response = <<>>
  THEN [ret |-> FALSE, checksum_idx |-> -1]
  ELSE IF Len(response) > kMaxPingResponseLength
  THEN [ret |-> FALSE, checksum_idx |-> -1]
  ELSE
    LET found == find(response, <<"\n">> \o kChecksumLine, 0)
        checksum_param == IF found >= 0 THEN <<"\n">> \o kChecksumLine
                          ELSE kChecksumLine
    IN  IF found < 0 /\ ~StartsWithASCII(response, checksum_param)
        THEN [ret |-> FALSE, checksum_idx |-> -1]
        ELSE
          LET checksum_index == IF found >= 0 THEN found ELSE 0
              \* (+ 1 to include the \n)
              message == IF found >= 0 THEN substr(response, 0, found + 1)
                         ELSE <<>>
              calculated_crc == Crc32(message)
              newline == find(response, <<"\n">>, checksum_index + 1)
              checksum_end == IF newline < 0 THEN size(response) ELSE newline
              checksum_begin == checksum_index + size(checksum_param)
              checksum == TrimAll(substr(response, checksum_begin,
                                         checksum_end - checksum_begin + 1))
          IN  [ret |-> TRUE,
               checksum_idx |-> checksum_index]

\* IsPingResponseValid without the limit on the length of the response.
IsPingResponseValidOfAnyLength(response) ==
  IF response = NULL \/ response = <<>>
  THEN [ret |-> FALSE, checksum_idx |-> -1]
  ELSE
    LET found == find(response, <<"\n">> \o kChecksumLine, 0)
        checksum_param == IF found >= 0 THEN <<"\n">> \o kChecksumLine
                          ELSE kChecksumLine
    IN  IF found < 0 /\ ~StartsWithASCII(response, checksum_param)
        THEN [ret |-> FALSE, checksum_idx |-> -1]
        ELSE
          LET checksum_index == IF found >= 0 THEN found ELSE 0
              \* (+ 1 to include the \n)
              message == IF found >= 0 THEN substr(response, 0, found + 1)
                         ELSE <<>>
              calculated_crc == Crc32(message)
              newline == find(response, <<"\n">>, checksum_index + 1)
              checksum_end == IF newline < 0 THEN size(response) ELSE newline
              checksum_begin == checksum_index + size(checksum_param)
              checksum == TrimAll(substr(response, checksum_begin,
                                         checksum_end - checksum_begin + 1))
          IN  [ret |-> calculated_crc = HexStringToInteger(checksum),
               checksum_idx |-> checksum_index]

\* IsPingResponseValid(response, &checksum_idx): the return value and the
\* value left in *checksum_idx (-1 is what the callers put there first).
IsPingResponseValid(response) ==
  IF response = NULL \/ response = <<>>
  THEN [ret |-> FALSE, checksum_idx |-> -1]
  ELSE IF Len(response) > kMaxPingResponseLength
  THEN [ret |-> FALSE, checksum_idx |-> -1]
  ELSE
    LET found == find(response, <<"\n">> \o kChecksumLine, 0)
        checksum_param == IF found >= 0 THEN <<"\n">> \o kChecksumLine
                          ELSE kChecksumLine
    IN  IF found < 0 /\ ~StartsWithASCII(response, checksum_param)
        THEN [ret |-> FALSE, checksum_idx |-> -1]
        ELSE
          LET checksum_index == IF found >= 0 THEN found ELSE 0
              \* (+ 1 to include the \n)
              message == IF found >= 0 THEN substr(response, 0, found + 1)
                         ELSE <<>>
              calculated_crc == Crc32(message)
              newline == find(response, <<"\n">>, checksum_index + 1)
              checksum_end == IF newline < 0 THEN size(response) ELSE newline
              checksum_begin == checksum_index + size(checksum_param)
              checksum == TrimAll(substr(response, checksum_begin,
                                         checksum_end - checksum_begin + 1))
          IN  [ret |-> calculated_crc = HexStringToInteger(checksum),
               checksum_idx |-> checksum_index]

(***************************************************************************)
(* Ping response parsing.                                                  *)
(***************************************************************************)

RECURSIVE EventsLoop(_, _, _, _)
\* The loop, were a token that does not decode to end it.
EventsLoopLeavingAtBadToken(events, events_length, event_end_index, event_array) ==
  LET event_begin == event_end_index + 1
      next_index == find(events, <<kEventsCgiSeparator>>, event_begin)
      event_end == IF next_index < 0 THEN events_length ELSE next_index
      event_string == substr(events, event_begin, event_end - event_begin)
      ap == GetAccessPointFromName(substr(event_string, 0, 2))
      ev == GetEventFromName(substrFrom(event_string, size(event_string) - 1))
      appended ==
        IF size(event_string) # 3 THEN event_array
        ELSE IF ~ap.ok \/ ap.point = "NO_ACCESS_POINT" THEN event_array
        ELSE IF ~ev.ok \/ ev.event = "INVALID_EVENT" THEN event_array
        ELSE Append(event_array,
                    [access_point |-> ap.point, event_type |-> ev.event])
  IN  IF next_index >= 0 /\ appended # event_array
      THEN EventsLoop(events, events_length, next_index, appended)
      ELSE appended

\* The do-while loop of GetEventsFromResponseString, entered with the value
\* event_end_index has at the top of an iteration.
EventsLoop(events, events_length, event_end_index, event_array) ==
  LET event_begin == event_end_index + 1
      next_index == find(events, <<kEventsCgiSeparator>>, event_begin)
      event_end == IF next_index < 0 THEN events_length ELSE next_index
      event_string == substr(events, event_begin, event_end - event_begin)
      ap == GetAccessPointFromName(substr(event_string, 0, 2))
      ev == GetEventFromName(substrFrom(event_string, size(event_string) - 1))
      appended ==
        IF size(event_string) # 3 THEN event_array
        ELSE IF ~ap.ok \/ ap.point = "NO_ACCESS_POINT" THEN event_array
        ELSE IF ~ev.ok \/ ev.event = "INVALID_EVENT" THEN event_array
        ELSE Append(event_array,
                    [access_point |-> ap.point, event_type |-> ev.event])
  IN  IF next_index >= 0
      THEN EventsLoop(events, events_length, next_index, appended)
      ELSE appended

\* GetEventsFromResponseString(response_line, field_header, &event_array)
GetEventsFromResponseString(response_line, field_header) ==
  LET all == TrimLeading(substrFrom(response_line, size(field_header)))
      stop == find_first_of(all, {"\r", "\n", " "})
      events_length == IF stop < 0 THEN size(all) ELSE stop
      events == substr(all, 0, events_length)
  IN  EventsLoop(events, events_length, -1, <<>>)

RECURSIVE ClearEvents(_, _, _, _, _)
\* The loop calling ClearProductEvent for event_array[i..].
ClearEvents(st, product, event_array, i, access) ==
  IF i > Len(event_array) THEN st
  ELSE ClearEvents(
         ClearProductEventOp(st, product, event_array[i].access_point,
                             event_array[i].event_type, FALSE, access).st,
         product, event_array, i + 1, access)

RECURSIVE RecordStatefulEvents(_, _, _, _, _)
\* The loop calling RecordStatefulEvent for event_array[i..].
RecordStatefulEvents(st, product, event_array, i, access) ==
  IF i > Len(event_array) THEN st
  ELSE RecordStatefulEvents(
         RecordStatefulEvent(st, product, event_array[i].access_point,
                             event_array[i].event_type, FALSE, access).st,
         product, event_array, i + 1, access)

\* The body of the line loop of ParsePingResponse for one non-empty line:
\* the store after the line has been handled.
ParseResponseLine(st, product, response_line, access) ==
  LET events_variable == kEventsCgiVariable \o <<":", " ">>
      stateful_events_variable == kStatefulEventsCgiVariable \o <<":", " ">>
      rlz_cgi_length == size(kRlzCgiVariable)
  IN
  IF StartsWithASCII(response_line, kRlzCgiVariable)
  THEN
    LET separator_index == find(response_line, <<":", " ">>, 0)
        point_name == substr(response_line, 3, separator_index - rlz_cgi_length)
        ap == GetAccessPointFromName(point_name)
        rlz_value == TrimLeading(substrFrom(response_line, separator_index + 2))
        stop == find_first_of(rlz_value, {"\r", "\n", " "})
        rlz_length == IF stop < 0 THEN size(rlz_value) ELSE stop
    IN  IF separator_index < 0 THEN st
        ELSE IF ~ap.ok \/ ap.point = "NO_ACCESS_POINT" THEN st
        ELSE IF rlz_length > kMaxRlzLength THEN st
        ELSE IF IsAccessPointSupported(ap.point)
        THEN SetAccessPointRlzOp(st, ap.point, substr(rlz_value, 0, rlz_length),
                                 FALSE, access).st
        ELSE st
  ELSE IF StartsWithASCII(response_line, events_variable)
  THEN ClearEvents(st, product,
                   GetEventsFromResponseString(response_line, events_variable),
                   1, access)
  ELSE IF StartsWithASCII(response_line, stateful_events_variable)
  THEN RecordStatefulEvents(st, product,
                            GetEventsFromResponseString(
                              response_line, stateful_events_variable),
                            1, access)
  ELSE st

RECURSIVE ParseResponseLines(_, _, _, _, _, _)
\* The do-while loop of ParsePingResponse, entered with the value
\* line_end_index has at the top of an iteration.  The store after one line
\* is bound by a quantifier before the next line starts, which keeps TLC's
\* evaluation shallow.
\* The loop, were an empty line to end it.
ParseResponseLinesLeavingAtEmptyLine(st, product, response_string, response_length, line_end_index, access) ==
  LET line_begin == line_end_index + 1
      next_index == find(response_string, <<"\n">>, line_begin)
      line_end == IF next_index < 0 THEN response_length ELSE next_index
      response_line == substr(response_string, line_begin,
                              line_end - line_begin)
      Continue(after) ==
        IF next_index >= 0
        THEN CHOOSE r \in {ParseResponseLines(s, product, response_string,
                                              response_length, next_index,
                                              access) : s \in {after}} : TRUE
        ELSE after
  IN  IF line_end <= line_begin THEN st
      ELSE Continue(ParseResponseLine(st, product, response_line, access))

ParseResponseLines(st, product, response_string, response_length, line_end_index, access) ==
  LET line_begin == line_end_index + 1
      next_index == find(response_string, <<"\n">>, line_begin)
      line_end == IF next_index < 0 THEN response_length ELSE next_index
      response_line == substr(response_string, line_begin,
                              line_end - line_begin)
      Continue(after) ==
        IF next_index >= 0
        THEN CHOOSE r \in {ParseResponseLines(s, product, response_string,
                                              response_length, next_index,
                                              access) : s \in {after}} : TRUE
        ELSE after
  IN  Continue(IF line_end <= line_begin THEN st  \* Empty line.
               ELSE ParseResponseLine(st, product, response_line, access))

(***************************************************************************)
(* The ping responses the calls of the model are given.                    *)
(***************************************************************************)

\* Length bound on the bodies of the generated ping responses, in lines.
MaxBodyLines == 2

\* The eight upper-case hex digits of a 32-bit value.
ToHex(w) ==
  LET digit(v) == IF v < 10 THEN HexDigits[v + 1] ELSE HexUpper[v - 9]
  IN  <<digit(w[1] \div 4096), digit((w[1] \div 256) % 16),
        digit((w[1] \div 16) % 16), digit(w[1] % 16),
        digit(w[2] \div 4096), digit((w[2] \div 256) % 16),
        digit((w[2] \div 16) % 16), digit(w[2] % 16)>>

\* The same digits in lower case.
ToLowerHex(w) ==
  LET h == ToHex(w)
      lower(c) == IF \E i \in 1..6 : HexUpper[i] = c
                  THEN HexDigits[10 + (CHOOSE i \in 1..6 : HexUpper[i] = c)]
                  ELSE c
  IN  [i \in 1..8 |-> lower(h[i])]

\* A 32-bit value other than w.
OtherWord(w) ==
  IF w[2] = Two16 - 1 THEN Word(w[1], 0) ELSE Word(w[1], w[2] + 1)

\* A response: a body, a checksum line whose value is the checksum of the
\* body ("good"), another value ("bad") or no checksum line ("none"), and
\* what follows the checksum value.
Response(body, kind, suffix) ==
  CASE kind = "good" -> body \o kChecksumLine \o ToHex(Crc32(body)) \o suffix
    [] kind = "bad" ->
         body \o kChecksumLine \o ToHex(OtherWord(Crc32(body))) \o suffix
    [] OTHER -> body \o suffix

\* An RLZ value one character longer than allowed, with a character that
\* normalization would replace.
TooLongRlz == [i \in 1..(kMaxRlzLength + 1) |-> IF i = 2 THEN "/" ELSE "x"]

\* A response longer than kMaxPingResponseLength.
TooLong(kind) ==
  Response(<<"r", "l", "z", "I", "7", ":", " ", "1", "R", "3", "_", "e",
             "n", "\n">>
             \o [i \in 1..kMaxPingResponseLength |-> "x"] \o <<"\n">>,
           kind, <<>>)

\* The one with a good checksum.
TooLongResponse == TooLong("good")

\* A response with a good checksum that is exactly kMaxPingResponseLength
\* long.
MaxLengthResponse ==
  Response(<<"r", "l", "z", "I", "7", ":", " ", "1", "R", "3", "_", "e",
             "n", "\n">>
             \o [i \in 1..(kMaxPingResponseLength - 30) |-> "x"] \o <<"\n">>,
           "good", <<>>)

\* The lines the bodies of the parsed responses are made of, in the order
\* they appear in a body.
ParseBodyLines ==
  << <<"r", "l", "z", "I", "7", ":", " ", "1", "R", "3", "_", "e", "n">>,
     <<"e", "v", "e", "n", "t", "s", ":", " ", "I", "7", "I">>,
     <<"s", "t", "a", "t", "e", "f", "u", "l", "_", "e", "v", "e", "n", "t",
       "s", ":", " ", "I", "7", "I">> >>

RECURSIVE JoinLines(_, _, _)
\* The lines of the sequence lines with an index in picked, from index i on,
\* each ended by a newline.
JoinLines(lines, picked, i) ==
  IF i > Len(lines) THEN <<>>
  ELSE (IF i \in picked THEN lines[i] \o <<"\n">> ELSE <<>>)
       \o JoinLines(lines, picked, i + 1)

ParseBodies ==
  {JoinLines(ParseBodyLines, picked, 1) :
     picked \in {q \in SUBSET (1..Len(ParseBodyLines)) :
                   Cardinality(q) <= MaxBodyLines}}

\* Lines that follow the checksum line, with and without a final newline.
LateLines ==
  {<<"\n", "r", "l", "z", "I", "7", ":", " ", "l", "a", "t", "e">>, <<"\n",
     "r", "l", "z", "I", "7", ":", " ", "l", "a", "t", "e", "\n">>, <<"\n",
     "e", "v", "e", "n", "t", "s", ":", " ", "I", "7", "I", "\n">>}

\* The responses given to ParsePingResponse by the specification Spec.
ParseResponses ==
  {Response(b, k, <<>>) : b \in ParseBodies, k \in {"good", "bad", "none"}}
    \cup {Response(b, "good", x) : b \in ParseBodies, x \in LateLines}
    \cup {Response(<<"d", "c", "c", ":", " ", "\n", "s", "e", "t", "_", "d",
                     "c", "c", ":", " ", "d", "1",
                     "\n">>, k, <<>>) : k \in {"good", "bad"}}
    \cup {NULL, <<>>, TooLongResponse, MaxLengthResponse,
          <<"c", "r", "c", "3", "2", ":", " ", "0", "x", "0">>,
          <<"c", "r", "c", "3", "2", ":", " ", "0", "\n", "r", "l", "z",
            "I", "7", ":", " ", "l", "a", "t", "e", "\n">>,
          Response(<<"\n">>, "good", <<"\n", "r", "l", "z", "I", "7", ":",
                     " ", "l", "a", "t", "e", "\n">>)}

\* The responses given to ParsePingResponse by the specification SpecRlz.
RlzResponses ==
  {Response(<<"r", "l", "z", "I", "7", ":", " ", "1", "R", "3", "_", "e",
              "n", "\n">>, "good", <<>>),
   Response(<<"r", "l", "z", "I", "7", ":", " ", "1", "R", "3", "_", "e",
              "n", "\n">>, "bad", <<>>),
   Response(<<"r", "l", "z", "T", "4", ":", " ", "a", "/", "b", " ", " ",
              "x", "\n">>, "good", <<>>),
   Response(<<"r", "l", "z", "H", "1", ":", " ", "a", "b", "c",
              "\n">>, "good", <<>>),
   Response(<<"r", "l", "z", "I", "7", ":",
              " ">> \o TooLongRlz \o <<"\n">>, "good", <<>>),
   Response(<<"r", "l", "z", "I", "7", ":", " ", "x", "1", "\r", "\n",
              "r", "l", "z", "I", "7", ":", " ">> \o TooLongRlz
              \o <<"\n", "r", "l", "z", "T", "4", ":", " ", "\n">>,
            "good", <<>>),
   Response(<<"r", "l", "z", "I", "7", ":", " ", "1", "R", "3", "_", "e",
              "n", "\n">>, "good",
            <<"\n", "r", "l", "z", "I", "7", ":", " ", "l", "a", "t", "e",
              "\n">>)}

\* The responses given to ParsePingResponse by the specification SpecEvents:
\* events and stateful_events lines with tokens that decode and tokens that
\* do not, and an events line after the checksum line.
EventResponses ==
  {Response(<<"e", "v", "e", "n", "t", "s", ":", " ", "I", "7", "I", "\n">>,
            "good", <<>>),
   Response(<<"e", "v", "e", "n", "t", "s", ":", " ", "I", "7", "I", ",",
                      "T", "4", "F", "\n">>,
            "good", <<>>),
   Response(<<"e", "v", "e", "n", "t", "s", ":", " ", "I", "7", ",", "X",
                      "X", "I", ",", "I", "7", "Z", ",", "T", "4",
                      "F", ",", "I", "7", "I", "I", "\n">>,
            "good", <<>>),
   Response(<<"e", "v", "e", "n", "t", "s", ":", " ", " ", " ", "T", "4",
                      "I", " ", "\r", "\n">>,
            "good", <<>>),
   Response(<<"s", "t", "a", "t", "e", "f", "u", "l", "_", "e", "v", "e",
                      "n", "t", "s", ":", " ", "I", "7", "I", "\n">>,
            "good", <<>>),
   Response(<<"s", "t", "a", "t", "e", "f", "u", "l", "_", "e", "v", "e",
                      "n", "t", "s", ":", " ", "X", "X", "I", ",",
                      "T", "4", "F", ",", ",", "I", "7", "\n">>,
            "good", <<>>),
   Response(<<"e", "v", "e", "n", "t", "s", ":", " ", "I", "7", "I", "\n",
                      "s", "t", "a", "t", "e", "f", "u", "l", "_",
                      "e", "v", "e", "n", "t", "s", ":", " ", "I",
                      "7", "I", "\n">>,
            "good", <<>>),
   Response(<<"s", "t", "a", "t", "e", "f", "u", "l", "_", "e", "v", "e",
                      "n", "t", "s", ":", " ", "I", "7", "I", "\n",
                      "e", "v", "e", "n", "t", "s", ":", " ", "T",
                      "4", "F", "\n">>,
            "bad", <<>>),
   Response(<<"e", "v", "e", "n", "t", "s", ":", " ", "I", "7", "I", "\n">>,
            "good", <<"\n", "e", "v", "e", "n", "t", "s", ":", " ", "T", "4", "F",
               "\n">>)}

\* The texts that precede the checksum line in the responses given to
\* IsPingResponseValid.
CheckPrefixes ==
  {<<>>, <<"\n">>, <<"H", "e", "l", "l", "o">>, <<"H", "e", "l", "l", "o",
     "\n">>,
   <<"x", "\n", "c", "r", "c", "3", "2", ":", " ", "1", "\n">>,
   Response(<<"x", "\n">>, "good", <<"\n">>)}

\* The ways the checksum value w is written on the checksum line.
ChecksumTexts(w) ==
  {ToHex(w), ToLowerHex(w), <<"0", "x">> \o ToHex(w),
   <<" ", "\t">> \o ToHex(w) \o <<" ">>,
   ToHex(w) \o <<"z", "z">>,
   ToHex(OtherWord(w)),
   <<>>,
   <<"z", "z">>,
   <<"F", "7", "D", "1", "8", "9", "8", "2">>,
   <<"F", "7", "D", "1", "8", "9", "8", "3">>}

\* The responses given to IsPingResponseValid by the specification
\* SpecValid.
CheckResponses ==
  UNION {{pre \o kChecksumLine \o text \o post :
            text \in ChecksumTexts(Crc32(pre)),
            post \in {<<>>, <<"\n">>, <<"\n", "m", "o", "r", "e">>}} :
         pre \in CheckPrefixes}
    \cup {NULL, <<>>, MaxLengthResponse, <<"H", "e", "l", "l", "o", "\n">>}
    \cup {TooLong(kind) : kind \in {"good", "bad", "none"}}

\* The responses given to IsPingResponseValid by the specification Spec.
EdgeResponses ==
  {NULL, <<>>, MaxLengthResponse,
   <<"c", "r", "c", "3", "2", ":", " ", "0", "x", "0">>,
   <<"c", "r", "c", "3", "2", ":", " ", "0", "\n", "r", "l", "z", "I", "7",
     ":", " ", "l", "a", "t", "e", "\n">>}
    \cup {TooLong(kind) : kind \in {"good", "bad", "none"}}

\* The responses given to ParsePingResponse and SetFromPingResponse by the
\* specification SpecDcc: with and without the echo of the current deal code
\* and the new deal code, and with these lines after the checksum line.
DccResponses ==
  {Response(<<"d", "c", "c", ":", " ", "d", "1", "\n", "s", "e", "t", "_",
            "d", "c", "c", ":", " ", "d", "2", "\n">>,
            "good", <<>>),
   Response(<<"d", "c", "c", ":", " ", "d", "1", "\n", "s", "e", "t", "_",
            "d", "c", "c", ":", " ", "d", "2", "\n">>,
            "bad", <<>>),
   Response(<<"d", "c", "c", ":", " ", "d", "2", "\n", "s", "e", "t", "_",
            "d", "c", "c", ":", " ", "d", "1", "\n">>,
            "good", <<>>),
   Response(<<"s", "e", "t", "_", "d", "c", "c", ":", " ", "d", "2", "\n">>,
            "good", <<>>),
   Response(<<"d", "c", "c", ":", " ", "d", "1", "\n">>,
            "good", <<>>),
   Response(<<"d", "c", "c", ":", " ", "\n", "s", "e", "t", "_", "d", "c",
            "c", ":", " ", "d", "1", "\n">>,
            "good", <<>>),
   Response(<<"r", "l", "z", "I", "7", ":", " ", "1", "R", "3", "\n", "d",
            "c", "c", ":", " ", " ", "d", "1", " ", "\r", "\n", "s", "e", "t",
            "_", "d", "c", "c", ":", " ", " ", "d", "2", " ", "\r", "\n">>,
            "good", <<>>),
   Response(<<"d", "c", "c", ":", " ", "d", "1", "\n", "s", "e", "t", "_",
            "d", "c", "c", ":", " ", "d", "2", "3", "4", "5", "\n">>,
            "good", <<>>),
   Response(<<"d", "c", "c", ":", " ", "d", "1", "\n">>,
            "good", <<"\n", "s", "e", "t", "_", "d", "c", "c", ":", " ", "d", "2",
            "\n">>),
   Response(<<"d", "c", "c", ":", " ", "d", "2", "\n">>,
            "good", <<"\n", "d", "c", "c", ":", " ", "d", "1", "\n", "s", "e", "t",
            "_", "d", "c", "c", ":", " ", "d", "1", "\n">>)}

\* The lines the bodies of the responses of SpecLines are made of: lines that
\* are applied (the first, fourth, eighth and ninth) and, between them, an
\* rlz line without ": ", one with an unknown access point code, one with a
\* value that is too long, a line with an unknown prefix and an empty line.
LineBodyLines ==
  << <<"e", "v", "e", "n", "t", "s", ":", " ", "I", "7", "I">>,
     <<"r", "l", "z", "I", "7">>,
     <<"r", "l", "z", "Z", "Z", ":", " ", "a">>,
     <<"r", "l", "z", "I", "7", ":", " ", "1", "R", "3">>,
     <<"r", "l", "z", "I", "7", ":", " ">> \o TooLongRlz,
     <<"e", "v", "e", "n", "t", "s", ":", "T", "4", "F">>,
     <<>>,
     <<"s", "t", "a", "t", "e", "f", "u", "l", "_", "e", "v", "e", "n", "t",
     "s", ":", " ", "T", "4", "F">>,
     <<"r", "l", "z", "T", "4", ":", " ", "1", "T", "4">> >>

\* The positions of the lines of LineBodyLines that are applied.
WellFormedLines == {1, 4, 8, 9}

\* The responses given to ParsePingResponse by the specification SpecLines.
LineResponses ==
  {Response(JoinLines(LineBodyLines, picked, 1), "good", <<>>) :
     picked \in {WellFormedLines}
                 \cup {WellFormedLines \cup {m} : m \in {2, 3, 5, 6, 7}}
                 \cup {{2, 3, 5, 6, 7}, {2, 3, 5, 6, 7, 9}, 1..7, 5..9}}

AllResponses ==
  ParseResponses \cup RlzResponses \cup CheckResponses \cup EdgeResponses
    \cup EventResponses \cup LineResponses \cup DccResponses

\* IsPingResponseValid on every response of the model, evaluated once; this
\* is what the callers of IsPingResponseValid apply.
PingResponseValidity ==
  [response \in AllResponses |-> IsPingResponseValid(response)]

(***************************************************************************)
(* Deal code extraction from a ping response (class MachineDealCode).      *)
(***************************************************************************)

\* MachineDealCode::ExtractFromResponse(response, dcc, dcc_size, set_value):
\* the value of the first line of the checked part of the response that
\* carries the new deal code (set_value) or the echo of the current one.
ExtractFromResponse(response, response_length, set_value) ==
  LET header == (IF set_value THEN kSetDccResponseVariable
                 ELSE kDccCgiVariable) \o <<":", " ">>
      region == substr(response, 0, response_length)
      starts == {b \in 0..(Len(region) - 1) :
                   /\ b = 0 \/ region[b] = "\n"
                   /\ StartsWithASCII(substrFrom(region, b), header)}
  IN  IF starts = {} THEN [found |-> FALSE, dcc |-> <<>>]
      ELSE
        LET b == CHOOSE x \in starts : \A y \in starts : x <= y
            rest == TrimLeading(substrFrom(region, b + size(header)))
            stop == find_first_of(rest, {"\r", "\n", " "})
        IN  [found |-> TRUE,
             dcc |-> IF stop < 0 THEN rest ELSE substr(rest, 0, stop)]

\* The new deal code of a response, were the echo of the current one not
\* compared with the stored one.
GetNewCodeFromPingResponseUnconfirmed(st, response) ==
  LET Code(valid, echo, new) ==
        IF ~valid.ret
        THEN [ret |-> FALSE, has_new_dcc |-> FALSE, new_dcc |-> <<>>]
        ELSE IF ~echo.found
        THEN [ret |-> FALSE, has_new_dcc |-> FALSE, new_dcc |-> <<>>]
        ELSE [ret |-> TRUE, has_new_dcc |-> new.found, new_dcc |-> new.dcc]
      Extracted(valid) ==
        Code(valid,
             ExtractFromResponse(response, valid.checksum_idx, FALSE),
             ExtractFromResponse(response, valid.checksum_idx, TRUE))
  IN  Extracted(PingResponseValidity[response])

\* MachineDealCode::GetNewCodeFromPingResponse(response, &has_new_dcc,
\* new_dcc, new_dcc_size): the return value, *has_new_dcc and new_dcc.
GetNewCodeFromPingResponse(st, response) ==
  LET Code(valid, echo, new) ==
        IF ~valid.ret
        THEN [ret |-> FALSE, has_new_dcc |-> FALSE, new_dcc |-> <<>>]
        ELSE IF ~echo.found \/ echo.dcc # st.dcc
        THEN [ret |-> FALSE, has_new_dcc |-> FALSE, new_dcc |-> <<>>]
        ELSE [ret |-> TRUE, has_new_dcc |-> new.found, new_dcc |-> new.dcc]
      Extracted(valid) ==
        Code(valid,
             ExtractFromResponse(response, valid.checksum_idx, FALSE),
             ExtractFromResponse(response, valid.checksum_idx, TRUE))
  IN  Extracted(PingResponseValidity[response])

\* MachineDealCode::SetFromPingResponse(response)
SetFromPingResponse(st, response) ==
  LET SetCode(code) ==
        IF code.ret /\ code.has_new_dcc
        THEN MachineDealCodeSet(st, code.new_dcc, FALSE)
        ELSE Result(code.ret, st)
  IN  SetCode(GetNewCodeFromPingResponse(st, response))

(***************************************************************************)
(* The request: GetPingParams and FormFinancialPingRequest.                *)
(***************************************************************************)

RECURSIVE RlzsLoop(_, _, _, _, _, _)

\* The loop with a separator before every RLZ, the first one included.
RlzsLoopSeparating(st, access_points, i, cgi_string, first_rlz, access) ==
  IF access_points[i] = "NO_ACCESS_POINT" THEN cgi_string
  ELSE
    LET Appended(read) ==
          IF read.ret /\ GetAccessPointName(access_points[i]) # NULL
          THEN RlzsLoop(st, access_points, i + 1,
                        cgi_string \o <<kRlzCgiSeparator>>
                          \o GetAccessPointName(access_points[i])
                          \o <<kRlzCgiIndicator>> \o read.rlz,
                        FALSE, access)
          ELSE RlzsLoop(st, access_points, i + 1, cgi_string, first_rlz,
                        access)
    IN  Appended(GetAccessPointRlzOp(st, access_points[i], kMaxRlzLength + 1,
                                     FALSE, access))

\* The loop of GetPingParams over access_points[i..], which stops at
\* NO_ACCESS_POINT: cgi_string after the loop.
RlzsLoop(st, access_points, i, cgi_string, first_rlz, access) ==
  IF access_points[i] = "NO_ACCESS_POINT" THEN cgi_string
  ELSE
    LET Appended(read) ==
          IF read.ret /\ GetAccessPointName(access_points[i]) # NULL
          THEN RlzsLoop(st, access_points, i + 1,
                        cgi_string
                          \o (IF first_rlz THEN <<>> ELSE <<kRlzCgiSeparator>>)
                          \o GetAccessPointName(access_points[i])
                          \o <<kRlzCgiIndicator>> \o read.rlz,
                        FALSE, access)
          ELSE RlzsLoop(st, access_points, i + 1, cgi_string, first_rlz,
                        access)
    IN  Appended(GetAccessPointRlzOp(st, access_points[i], kMaxRlzLength + 1,
                                     FALSE, access))

\* The string GetPingParams builds: the protocol version, the RLZs and the
\* deal code.
PingParamsString(st, access_points, access) ==
  LET WithDcc(cgi_string, code) ==
        IF code.ret /\ code.dcc # <<>>
        THEN cgi_string \o <<"&">> \o kDccCgiVariable \o <<"=">> \o code.dcc
        ELSE cgi_string
  IN  WithDcc(RlzsLoop(st, access_points, 1,
                       kProtocolCgiArgument \o <<"&">> \o kRlzCgiVariable
                         \o <<"=">>,
                       TRUE, access),
              MachineDealCodeGet(st, kMaxDccLength + 1))

\* GetPingParams(product, access_points, cgi, cgi_size, sid): the return
\* value and the string in cgi; the buffer is NULL when cgi_size is 0.
GetPingParamsOp(st, product, access_points, cgi_size, lock_failed, access) ==
  IF cgi_size <= 0 THEN [ret |-> FALSE, cgi |-> NULL]
  ELSE IF lock_failed THEN [ret |-> FALSE, cgi |-> <<>>]
  ELSE IF ~HasAccess(access, FALSE) THEN [ret |-> FALSE, cgi |-> <<>>]
  ELSE IF access_points = NULL THEN [ret |-> FALSE, cgi |-> <<>>]
  ELSE LET Copied(cgi_string) ==
             IF size(cgi_string) >= cgi_size
             THEN [ret |-> FALSE, cgi |-> <<>>]
             ELSE [ret |-> TRUE, cgi |-> cgi_string]
       IN  Copied(PingParamsString(st, access_points, access))

\* FinancialPing::FormRequest(product, access_points, ..., sid, &request):
\* the return value and the request string, which carries the protocol
\* version, the RLZs and the deal code.
FormRequest(st, product, access_points, lock_failed, access) ==
  IF lock_failed THEN [ret |-> FALSE, request |-> <<>>]
  ELSE IF ~HasAccess(access, FALSE) THEN [ret |-> FALSE, request |-> <<>>]
  ELSE IF access_points = NULL THEN [ret |-> FALSE, request |-> <<>>]
  ELSE [ret |-> TRUE,
        request |-> PingParamsString(st, access_points, access)]

\* FormFinancialPingRequest(product, access_points, ..., request,
\* request_buffer_size, sid): the return value and the string in request;
\* the buffer is NULL when request_buffer_size is 0.
FormFinancialPingRequestOp(st, product, access_points, request_buffer_size, lock_failed, access) ==
  IF request_buffer_size = 0 THEN [ret |-> FALSE, request |-> NULL]
  ELSE LET Copied(formed) ==
             IF ~formed.ret THEN [ret |-> FALSE, request |-> <<>>]
             ELSE IF size(formed.request) >= request_buffer_size
             THEN [ret |-> FALSE, request |-> <<>>]
             ELSE [ret |-> TRUE, request |-> formed.request]
       IN  Copied(FormRequest(st, product, access_points, lock_failed,
                              access))

(***************************************************************************)
(* ParsePingResponse and ClearProductState.                                *)
(***************************************************************************)

\* ParsePingResponse without the early return for an empty checked region.
ParsePingResponseOpNoEmptyCase(st, product, response, lock_failed, access) ==
  IF lock_failed THEN [ret |-> FALSE, st |-> st, undefined |-> FALSE]
  ELSE IF ~HasAccess(access, TRUE)
  THEN [ret |-> FALSE, st |-> st, undefined |-> FALSE]
  ELSE IF response = NULL THEN [ret |-> FALSE, st |-> st, undefined |-> TRUE]
  ELSE
    LET Parse(valid, response_length) ==
          IF ~valid.ret THEN [ret |-> FALSE, st |-> st, undefined |-> FALSE]
          ELSE \* Update the DCC in registry if needed.
               [ret |-> TRUE,
                st |-> SetFromPingResponse(
                         ParseResponseLines(st, product, response,
                                            response_length, -1, access),
                         response).st,
                undefined |-> FALSE]
        Checked(valid) == Parse(valid, valid.checksum_idx)
    IN  Checked(PingResponseValidity[response])

\* ParsePingResponse(product, response, sid): the return value, the store
\* after the call, and whether the call has undefined behaviour.
\* std::string response_string(response) is evaluated before the response
\* is checked; for a NULL response it reads through the null pointer.
ParsePingResponseOp(st, product, response, lock_failed, access) ==
  IF lock_failed THEN [ret |-> FALSE, st |-> st, undefined |-> FALSE]
  ELSE IF ~HasAccess(access, TRUE)
  THEN [ret |-> FALSE, st |-> st, undefined |-> FALSE]
  ELSE IF response = NULL THEN [ret |-> FALSE, st |-> st, undefined |-> TRUE]
  ELSE
    LET Parse(valid, response_length) ==
          IF ~valid.ret THEN [ret |-> FALSE, st |-> st, undefined |-> FALSE]
          ELSE IF 0 = response_length
          THEN \* Empty response - no parsing.
               [ret |-> TRUE, st |-> st, undefined |-> FALSE]
          ELSE \* Update the DCC in registry if needed.
               [ret |-> TRUE,
                st |-> SetFromPingResponse(
                         ParseResponseLines(st, product, response,
                                            response_length, -1, access),
                         response).st,
                undefined |-> FALSE]
        Checked(valid) == Parse(valid, valid.checksum_idx)
    IN  Checked(PingResponseValidity[response])

RECURSIVE ClearRlzs(_, _, _, _)
\* The loop of ClearProductState over access_points[i..], which stops at
\* NO_ACCESS_POINT.
ClearRlzs(st, access_points, i, access) ==
  IF access_points[i] = "NO_ACCESS_POINT" THEN st
  ELSE ClearRlzs(SetAccessPointRlzOp(st, access_points[i], <<>>, FALSE,
                                     access).st,
                 access_points, i + 1, access)

\* ClearProductState(product, access_points, sid): the store after the call.
RECURSIVE DeleteSubkeysIfEmpty(_, _, _)
\* The loop of ClearProductState over subkeys[i..].
DeleteSubkeysIfEmpty(st, subkeys, i) ==
  IF i > Len(subkeys) THEN st
  ELSE DeleteSubkeysIfEmpty(DeleteKeyIfEmpty(st, LibSubkey(subkeys[i])),
                            subkeys, i + 1)

\* The end of ClearProductState: the keys it removes when they are empty.
DeleteKeysIfEmpty(st) ==
  LET \* Delete each of the knows subkeys if empty.
      subkeys == <<kRlzsSubkeyName, kEventsSubkeyName, kPingTimesSubkeyName>>
      emptied == DeleteSubkeysIfEmpty(st, subkeys, 1)
  IN  \* Delete the library key and its parents too now if empty.
      DeleteKeyIfEmpty(
        DeleteKeyIfEmpty(DeleteKeyIfEmpty(emptied, kLibKeyName),
                         kGoogleCommonKeyName),
        kGoogleKeyName)

\* FinancialPing::ClearLastPingTime(product, sid)
ClearLastPingTime(st, product) ==
  IF product \in DOMAIN st.ping_times
  THEN [st EXCEPT !.ping_times[product] = NoPingTime]
  ELSE st

\* ClearProductState(product, access_points, sid): the store after the call.
ClearProductStateOp(st, product, access_points, lock_failed, access) ==
  IF lock_failed THEN st
  ELSE IF ~HasAccess(access, TRUE) THEN st
  ELSE LET \* Delete all product specific state.
           cleared == ClearLastPingTime(
                        ClearAllProductEventsOp(st, product, FALSE, access).st,
                        product)
           \* Delete all RLZ's for access points being uninstalled.
           uninstalled == IF access_points # NULL
                          THEN ClearRlzs(cleared, access_points, 1, access)
                          ELSE cleared
       IN  DeleteKeysIfEmpty(uninstalled)

(***************************************************************************)
(* The ping schedule (class FinancialPing) and the financial pings.        *)
(***************************************************************************)

\* The least time between two pings of a product.
kPingInterval == 2

\* The system time stops here.
MaxTime == 4

\* FinancialPing::IsPingTime(product, sid, no_delay) at the given time.
IsPingTime(st, product, no_delay, time) ==
  IF product \notin DOMAIN st.ping_times THEN FALSE
  ELSE IF no_delay THEN TRUE
  ELSE IF st.ping_times[product] = NoPingTime THEN TRUE
  ELSE time >= st.ping_times[product] + kPingInterval

\* FinancialPing::UpdateLastPingTime(product, sid) at the given time.
UpdateLastPingTime(st, product, time) ==
  IF product \notin DOMAIN st.ping_times THEN st
  ELSE [RegKeyCreate(st, LibSubkey(kPingTimesSubkeyName))
          EXCEPT !.ping_times[product] = time]

\* FinancialPing::ParseResponse(product, response, sid)
ParseResponse(st, product, response, access) ==
  ParsePingResponseOp(st, product, response, FALSE, access)

\* PingFinancialServer(product, request, response, response_buffer_size,
\* sid): the return value, the string in response (NULL when
\* response_buffer_size is 0) and whether the request was sent.  server is
\* what FinancialPing::PingServer gives when called.
PingFinancialServerOp(st, product, response_buffer_size, server, time) ==
  IF response_buffer_size = 0
  THEN [ret |-> FALSE, response |-> NULL, sent |-> FALSE]
  \* Check if the time is right to ping.
  ELSE IF ~IsPingTime(st, product, FALSE, time)
  THEN [ret |-> FALSE, response |-> <<>>, sent |-> FALSE]
  \* Send out the ping.
  ELSE IF ~server.ret THEN [ret |-> FALSE, response |-> <<>>, sent |-> TRUE]
  ELSE IF size(server.response) >= response_buffer_size
  THEN [ret |-> FALSE, response |-> <<>>, sent |-> TRUE]
  ELSE [ret |-> TRUE, response |-> server.response, sent |-> TRUE]

\* ParseFinancialPingResponse(product, response, sid)
ParseFinancialPingResponseOp(st, product, response, time, access) ==
  \* Update the last ping time irrespective of success.
  ParseResponse(UpdateLastPingTime(st, product, time), product, response,
                access)

\* SendFinancialPing without the check of the time.
SendFinancialPingOpUnthrottled(st, product, access_points, skip_time_check, server, time, access) ==
  IF ~FormRequest(st, product, access_points, FALSE, access).ret
  THEN [ret |-> FALSE, st |-> st, sent |-> FALSE]
  ELSE LET updated == UpdateLastPingTime(st, product, time)
       IN  IF ~server.ret
           THEN [ret |-> FALSE, st |-> updated, sent |-> TRUE]
           ELSE LET parsed == ParseResponse(updated, product, server.response,
                                            access)
                IN  [ret |-> parsed.ret, st |-> parsed.st, sent |-> TRUE]

\* SendFinancialPing(product, access_points, ..., sid, skip_time_check): the
\* return value, the store after the call and whether the request was sent.
SendFinancialPingOp(st, product, access_points, skip_time_check, server, time, access) ==
  \* Create the financial ping request.
  IF ~FormRequest(st, product, access_points, FALSE, access).ret
  THEN [ret |-> FALSE, st |-> st, sent |-> FALSE]
  \* Check if the time is right to ping.
  ELSE IF ~IsPingTime(st, product, skip_time_check, time)
  THEN [ret |-> FALSE, st |-> st, sent |-> FALSE]
  \* Send out the ping, update the last ping time irrespective of success.
  ELSE LET updated == UpdateLastPingTime(st, product, time)
       IN  IF ~server.ret
           THEN [ret |-> FALSE, st |-> updated, sent |-> TRUE]
           \* Parse the ping response - update RLZs, clear events.
           ELSE LET parsed == ParseResponse(updated, product, server.response,
                                            access)
                IN  [ret |-> parsed.ret, st |-> parsed.st, sent |-> TRUE]

(***************************************************************************)
(* The state machine: the store, the caller's permission on it, and the    *)
(* last library call with what it returned.                                *)
(***************************************************************************)

VARIABLES
  rlzs,          \* the RLZ value of each access point that has one
  events,        \* the recorded events of each product
  stateful,      \* the stateful events of each product
  dcc,           \* the machine deal code
  keys,          \* the keys of the store that exist
  ping_times,    \* the last ping time of each product, or NoPingTime
  now,           \* the system time
  mutex,         \* the mutex of the library: its owner and how often it took it
  threads,       \* the calls each caller is in, the innermost last
  access,        \* the permission of the caller on the store
  call,          \* the last call: its name and arguments
  ret,           \* what the last call returned
  out,           \* the content of the last call's output buffer
  checksum_idx,  \* *checksum_idx after the last IsPingResponseValid
  crashed        \* the last call ended the process instead of returning

vars == <<rlzs, events, stateful, dcc, keys, ping_times, now, mutex, threads,
          access, call, ret, out, checksum_idx, crashed>>

\* The callers of the library: threads, of one process or of several.
Callers == {1, 2}

Store ==
  [rlzs |-> rlzs, events |-> events, stateful |-> stateful, dcc |-> dcc,
   keys |-> keys, ping_times |-> ping_times]

\* A call record; the arguments a function does not take keep these values.
NoCall ==
  [name |-> "none", product |-> "-", point |-> "-", event |-> "-",
   rlz |-> NULL, response |-> NULL, size |-> 0, access_points |-> NULL,
   lock_failed |-> FALSE, values |-> <<>>, skip_time_check |-> FALSE,
   sent |-> FALSE, key |-> "-", caller |-> 0, step |-> "call"]

SetStore(st) ==
  /\ rlzs' = st.rlzs
  /\ events' = st.events
  /\ stateful' = st.stateful
  /\ dcc' = st.dcc
  /\ keys' = st.keys
  /\ ping_times' = st.ping_times

Returned(r, buffer) ==
  /\ ret' = r
  /\ out' = buffer
  /\ checksum_idx' = -1
  /\ crashed' = FALSE
  /\ UNCHANGED <<access, now, mutex, threads>>

InitStore ==
  /\ rlzs = <<>>
  /\ events = [p \in Products |-> {}]
  /\ stateful = [p \in Products |-> {}]
  /\ dcc = <<>>
  /\ keys = {}
  /\ ping_times = [p \in Products |-> NoPingTime]
  /\ now = 0
  /\ threads = [caller \in Callers |-> <<>>]
  /\ call = NoCall
  /\ ret = FALSE
  /\ out = <<>>
  /\ checksum_idx = -1
  /\ crashed = FALSE

\* No caller has the mutex, which a caller can take again while it has it.
InitMutex == mutex = [owner |-> 0, count |-> 0, recursive |-> TRUE]

Init == InitStore /\ InitMutex /\ access \in {"write", "read", "none"}

SetAccessPointRlz(point, new_rlz, lock_failed) ==
  \E r \in {SetAccessPointRlzOp(Store, point, new_rlz, lock_failed, access)} :
      /\ call' = [NoCall EXCEPT !.name = "SetAccessPointRlz", !.point = point,
                                !.rlz = new_rlz, !.lock_failed = lock_failed]
      /\ SetStore(r.st)
      /\ Returned(r.ret, <<>>)

GetAccessPointRlz(point, rlz_size, lock_failed) ==
  \E r \in {GetAccessPointRlzOp(Store, point, rlz_size, lock_failed, access)} :
      /\ call' = [NoCall EXCEPT !.name = "GetAccessPointRlz", !.point = point,
                                !.size = rlz_size,
                                !.lock_failed = lock_failed]
      /\ UNCHANGED <<rlzs, events, stateful, dcc, keys, ping_times>>
      /\ Returned(r.ret, r.rlz)

RecordProductEvent(product, point, event) ==
  \E r \in {RecordProductEventOp(Store, product, point, event, access)} :
      /\ call' = [NoCall EXCEPT !.name = "RecordProductEvent",
                                !.product = product, !.point = point,
                                !.event = event]
      /\ SetStore(r.st)
      /\ Returned(r.ret, <<>>)

ClearProductEvent(product, point, event, lock_failed) ==
  \E r \in {ClearProductEventOp(Store, product, point, event, lock_failed,
                                  access)} :
      /\ call' = [NoCall EXCEPT !.name = "ClearProductEvent",
                                !.product = product, !.point = point,
                                !.event = event, !.lock_failed = lock_failed]
      /\ SetStore(r.st)
      /\ Returned(r.ret, <<>>)

SetMachineDealCode(new_dcc, lock_failed) ==
  \E r \in {MachineDealCodeSet(Store, new_dcc, lock_failed)} :
      /\ call' = [NoCall EXCEPT !.name = "SetMachineDealCode",
                                !.rlz = new_dcc, !.lock_failed = lock_failed]
      /\ SetStore(r.st)
      /\ Returned(r.ret, <<>>)

CheckPingResponse(response) ==
  \E r \in {PingResponseValidity[response]} :
      /\ call' = [NoCall EXCEPT !.name = "IsPingResponseValid",
                                !.response = response]
      /\ UNCHANGED <<rlzs, events, stateful, dcc, keys, ping_times, access, now,
                     mutex, threads>>
      /\ ret' = r.ret
      /\ out' = <<>>
      /\ checksum_idx' = r.checksum_idx
      /\ crashed' = FALSE

ParsePingResponse(product, response, lock_failed) ==
  \E r \in {ParsePingResponseOp(Store, product, response, lock_failed,
                                 access)} :
      /\ call' = [NoCall EXCEPT !.name = "ParsePingResponse",
                                !.product = product, !.response = response,
                                !.lock_failed = lock_failed]
      /\ SetStore(r.st)
      /\ ret' = r.ret
      /\ out' = <<>>
      /\ checksum_idx' = -1
      \* Reading through the null pointer ends the process, or the build
      \* gets past it and the call goes on to reject the response.
      /\ crashed' \in (IF r.undefined THEN BOOLEAN ELSE {FALSE})
      /\ UNCHANGED <<access, now, mutex, threads>>

ClearAllProductEvents(product, lock_failed) ==
  \E r \in {ClearAllProductEventsOp(Store, product, lock_failed, access)} :
      /\ call' = [NoCall EXCEPT !.name = "ClearAllProductEvents",
                                !.product = product,
                                !.lock_failed = lock_failed]
      /\ SetStore(r.st)
      /\ Returned(r.ret, <<>>)

\* The orders in which the registry may enumerate the value names of a key.
Enumerations(names) ==
  {values \in [1..Cardinality(names) -> names] :
     \A i, j \in 1..Cardinality(names) : values[i] = values[j] => i = j}

GetProductEventsAsCgi(product, cgi_size, lock_failed) ==
  \E values \in Enumerations(IF product \in DOMAIN events
                              THEN events[product] ELSE {}) :
    \E r \in {GetProductEventsAsCgiOp(product, cgi_size, lock_failed, access,
                                      values)} :
      /\ call' = [NoCall EXCEPT !.name = "GetProductEventsAsCgi",
                                !.product = product, !.size = cgi_size,
                                !.lock_failed = lock_failed,
                                !.values = values]
      /\ UNCHANGED <<rlzs, events, stateful, dcc, keys, ping_times>>
      /\ Returned(r.ret, r.cgi)

GetPingParams(product, access_points, cgi_size, lock_failed) ==
  \E r \in {GetPingParamsOp(Store, product, access_points, cgi_size,
                            lock_failed, access)} :
      /\ call' = [NoCall EXCEPT !.name = "GetPingParams",
                                !.product = product, !.size = cgi_size,
                                !.access_points = access_points,
                                !.lock_failed = lock_failed]
      /\ UNCHANGED <<rlzs, events, stateful, dcc, keys, ping_times>>
      /\ Returned(r.ret, r.cgi)

FormFinancialPingRequest(product, access_points, request_buffer_size, lock_failed) ==
  \E r \in {FormFinancialPingRequestOp(Store, product, access_points,
                                       request_buffer_size, lock_failed,
                                       access)} :
      /\ call' = [NoCall EXCEPT !.name = "FormFinancialPingRequest",
                                !.product = product,
                                !.size = request_buffer_size,
                                !.access_points = access_points,
                                !.lock_failed = lock_failed]
      /\ UNCHANGED <<rlzs, events, stateful, dcc, keys, ping_times>>
      /\ Returned(r.ret, r.request)

\* The permissions of the user key are changed between two calls: what
\* UserKey::HasAccess finds from then on.
SetKeySecurity(new_access) ==
  /\ access' = new_access
  /\ call' = [NoCall EXCEPT !.name = "SetKeySecurity"]
  /\ ret' = TRUE
  /\ out' = <<>>
  /\ checksum_idx' = -1
  /\ crashed' = FALSE
  /\ UNCHANGED <<rlzs, events, stateful, dcc, keys, ping_times, now, mutex,
                 threads>>

\* GetAccessPointFromName(name, point): point is "NULL" for a null pointer;
\* the buffer holds *point afterwards.
CallGetAccessPointFromName(name, point) ==
  \E r \in {GetAccessPointFromName(name)} :
      /\ call' = [NoCall EXCEPT !.name = "GetAccessPointFromName",
                                !.rlz = name, !.point = point]
      /\ UNCHANGED <<rlzs, events, stateful, dcc, keys, ping_times>>
      /\ IF point = "NULL" THEN Returned(FALSE, <<>>)
         ELSE Returned(r.ok, <<r.point>>)

\* GetEventFromName(name, event): event is "NULL" for a null pointer; the
\* buffer holds *event afterwards.
CallGetEventFromName(name, event) ==
  \E r \in {GetEventFromName(name)} :
      /\ call' = [NoCall EXCEPT !.name = "GetEventFromName",
                                !.rlz = name, !.event = event]
      /\ UNCHANGED <<rlzs, events, stateful, dcc, keys, ping_times>>
      /\ IF event = "NULL" THEN Returned(FALSE, <<>>)
         ELSE Returned(r.ok, <<r.event>>)

\* HexStringToInteger(text): the value returned is a 32-bit word.
CallHexStringToInteger(text) ==
  /\ call' = [NoCall EXCEPT !.name = "HexStringToInteger", !.rlz = text]
  /\ UNCHANGED <<rlzs, events, stateful, dcc, keys, ping_times>>
  /\ Returned(HexStringToInteger(text), <<>>)

\* MachineDealCode::SetFromPingResponse(response), called directly.
CallSetFromPingResponse(response) ==
  \E r \in {SetFromPingResponse(Store, response)} :
      /\ call' = [NoCall EXCEPT !.name = "SetFromPingResponse",
                                !.response = response]
      /\ SetStore(r.st)
      /\ Returned(r.ret, <<>>)

ClearProductState(product, access_points, lock_failed) ==
  /\ call' = [NoCall EXCEPT !.name = "ClearProductState", !.product = product,
                            !.access_points = access_points,
                            !.lock_failed = lock_failed]
  /\ SetStore(ClearProductStateOp(Store, product, access_points, lock_failed,
                                  access))
  /\ Returned(FALSE, <<>>)

(***************************************************************************)
(* The specifications.                                                     *)
(***************************************************************************)

RlzValues ==
  {NULL, <<>>, <<"a", "b", "c", "1", "2", "3">>, <<"a", "/", "b", " ", "c">>,
   TooLongRlz}

\* Ping response handling: events are recorded, the deal code is set, and
\* responses are parsed.
Next ==
  \/ RecordProductEvent("IE_TOOLBAR", "IE_DEFAULT_SEARCH", "INSTALL")
  \/ ClearProductEvent("IE_TOOLBAR", "IE_DEFAULT_SEARCH", "INSTALL", FALSE)
  \/ \E response \in EdgeResponses : CheckPingResponse(response)
  \/ \E lock_failed \in BOOLEAN :
       SetMachineDealCode(<<"d", "2">>, lock_failed)
  \/ \E response \in ParseResponses :
       ParsePingResponse("IE_TOOLBAR", response, FALSE)
  \/ ParsePingResponse("IE_TOOLBAR",
                       Response(<<"r", "l", "z", "I", "7", ":", " ", "1",
                                "R", "3", "_", "e", "n",
                                "\n">>, "good", <<>>), TRUE)

Spec == Init /\ [][Next]_vars

\* The RLZ store: values are set, read, set by ping responses and cleared
\* with the product state.
NextRlz ==
  \/ \E point \in AccessPoints, new_rlz \in RlzValues, lock_failed \in BOOLEAN :
       SetAccessPointRlz(point, new_rlz, lock_failed)
  \/ \E point \in AccessPoints, rlz_size \in {0, 2, kMaxRlzLength + 1},
        lock_failed \in BOOLEAN :
       GetAccessPointRlz(point, rlz_size, lock_failed)
  \/ \E response \in RlzResponses, lock_failed \in BOOLEAN :
       ParsePingResponse("IE_TOOLBAR", response, lock_failed)
  \/ \E access_points \in {NULL, <<"IE_DEFAULT_SEARCH", "NO_ACCESS_POINT">>},
        lock_failed \in BOOLEAN :
       ClearProductState("IE_TOOLBAR", access_points, lock_failed)

SpecRlz == Init /\ [][NextRlz]_vars

\* Ping responses with malformed lines: values and events are stored and
\* responses that mix lines that are applied with lines that are not are
\* parsed.
NextLines ==
  \/ \E point \in {"IE_DEFAULT_SEARCH", "IETB_SEARCH_BOX"} :
       SetAccessPointRlz(point, <<"a", "b", "c", "1", "2", "3">>, FALSE)
  \/ RecordProductEvent("IE_TOOLBAR", "IE_DEFAULT_SEARCH", "INSTALL")
  \/ RecordProductEvent("IE_TOOLBAR", "IETB_SEARCH_BOX", "FIRST_SEARCH")
  \/ \E response \in LineResponses, lock_failed \in BOOLEAN :
       ParsePingResponse("IE_TOOLBAR", response, lock_failed)
  \/ ClearProductState("IE_TOOLBAR",
                       <<"IE_DEFAULT_SEARCH", "IETB_SEARCH_BOX",
                         "NO_ACCESS_POINT">>, FALSE)

SpecLines == Init /\ [][NextLines]_vars

\* The (access point, event) pairs of the calls of SpecEvents.
EventPairs ==
  {<<"IE_DEFAULT_SEARCH", "INSTALL">>, <<"IETB_SEARCH_BOX", "INSTALL">>,
   <<"IETB_SEARCH_BOX", "FIRST_SEARCH">>, <<"NO_ACCESS_POINT", "INSTALL">>,
   <<"IE_DEFAULT_SEARCH", "INVALID_EVENT">>}

\* The buffer sizes given to GetProductEventsAsCgi.
CgiSizes ==
  {0, 1, 7, 8, 11, 12, 16, 20, kMaxCgiLength + 1, kMaxCgiLength + 6}

\* The event store: events are recorded, cleared, reported as a CGI string,
\* and cleared or made stateful by ping responses.
NextEvents ==
  \/ \E pair \in EventPairs :
       RecordProductEvent("IE_TOOLBAR", pair[1], pair[2])
  \/ RecordProductEvent("CHROME", "IE_DEFAULT_SEARCH", "INSTALL")
  \/ \E pair \in EventPairs, lock_failed \in BOOLEAN :
       ClearProductEvent("IE_TOOLBAR", pair[1], pair[2], lock_failed)
  \/ \E response \in EventResponses, lock_failed \in BOOLEAN :
       ParsePingResponse("IE_TOOLBAR", response, lock_failed)
  \/ \E product \in Products, lock_failed \in BOOLEAN :
       ClearAllProductEvents(product, lock_failed)
  \/ ClearProductState("IE_TOOLBAR", NULL, FALSE)
  \/ \E cgi_size \in CgiSizes : GetProductEventsAsCgi("IE_TOOLBAR", cgi_size, FALSE)
  \/ GetProductEventsAsCgi("IE_TOOLBAR", kMaxCgiLength + 1, TRUE)

SpecEvents == Init /\ [][NextEvents]_vars

\* The access point lists given to GetPingParams and
\* FormFinancialPingRequest: no list, an empty one, lists in two orders, and
\* one with an unsupported point and with a point after the terminator.
PingAccessPoints ==
  {NULL, <<"NO_ACCESS_POINT">>,
   <<"IE_DEFAULT_SEARCH", "NO_ACCESS_POINT">>,
   <<"IE_DEFAULT_SEARCH", "IETB_SEARCH_BOX", "NO_ACCESS_POINT">>,
   <<"IETB_SEARCH_BOX", "MOBILE_IDLE_SCREEN_BLACKBERRY", "IE_DEFAULT_SEARCH",
     "NO_ACCESS_POINT", "IETB_SEARCH_BOX">>}

\* The buffer sizes given to GetPingParams and FormFinancialPingRequest.
PingSizes == {0, 1, 10, 11, 17, 2 * kMaxRlzLength + kMaxDccLength + 24}

\* The request: RLZ values, the deal code and events are stored, and the
\* strings of the request are built.
NextPing ==
  \/ \E point \in {"IE_DEFAULT_SEARCH", "IETB_SEARCH_BOX"},
        new_rlz \in {<<>>, <<"1", "R", "3">>} :
       SetAccessPointRlz(point, new_rlz, FALSE)
  \/ SetMachineDealCode(<<"d", "2">>, FALSE)
  \/ RecordProductEvent("IE_TOOLBAR", "IE_DEFAULT_SEARCH", "INSTALL")
  \/ RecordProductEvent("IE_TOOLBAR", "IETB_SEARCH_BOX", "FIRST_SEARCH")
  \/ ClearProductEvent("IE_TOOLBAR", "IE_DEFAULT_SEARCH", "INSTALL", FALSE)
  \/ \E cgi_size \in {1, 8, 11, 12, 15, 16, kMaxCgiLength + 1} :
       GetProductEventsAsCgi("IE_TOOLBAR", cgi_size, FALSE)
  \/ GetProductEventsAsCgi("IE_TOOLBAR", 16, TRUE)
  \/ \E access_points \in PingAccessPoints, cgi_size \in PingSizes :
       GetPingParams("IE_TOOLBAR", access_points, cgi_size, FALSE)
  \/ GetPingParams("IE_TOOLBAR", <<"IE_DEFAULT_SEARCH", "NO_ACCESS_POINT">>,
                   17, TRUE)
  \/ \E access_points \in PingAccessPoints, cgi_size \in PingSizes :
       FormFinancialPingRequest("IE_TOOLBAR", access_points, cgi_size, FALSE)
  \/ FormFinancialPingRequest("IE_TOOLBAR",
                              <<"IE_DEFAULT_SEARCH", "NO_ACCESS_POINT">>, 17,
                              TRUE)

SpecPing == Init /\ [][NextPing]_vars

\* The responses given to ParsePingResponse by the specification SpecAccess.
AccessResponses ==
  {Response(<<"r", "l", "z", "I", "7", ":", " ", "1", "R", "3", "_", "e",
              "n", "\n">>, "good", <<>>),
   Response(<<"s", "t", "a", "t", "e", "f", "u", "l", "_", "e", "v", "e",
              "n", "t", "s", ":", " ", "I", "7", "I", "\n">>, "good", <<>>),
   Response(<<"d", "c", "c", ":", " ", "d", "2", "\n", "s", "e", "t", "_",
              "d", "c", "c", ":", " ", "d", "1", "\n">>, "good", <<>>)}

SendFinancialPing(product, access_points, skip_time_check, server) ==
  \E r \in {SendFinancialPingOp(Store, product, access_points,
                                 skip_time_check, server, now, access)} :
      /\ call' = [NoCall EXCEPT !.name = "SendFinancialPing",
                                !.product = product,
                                !.access_points = access_points,
                                !.skip_time_check = skip_time_check,
                                !.response = server.response,
                                !.sent = r.sent]
      /\ SetStore(r.st)
      /\ Returned(r.ret, <<>>)

PingFinancialServer(product, response_buffer_size, server) ==
  \E r \in {PingFinancialServerOp(Store, product, response_buffer_size,
                                   server, now)} :
      /\ call' = [NoCall EXCEPT !.name = "PingFinancialServer",
                                !.product = product,
                                !.size = response_buffer_size,
                                !.response = server.response,
                                !.sent = r.sent]
      /\ UNCHANGED <<rlzs, events, stateful, dcc, keys, ping_times>>
      /\ Returned(r.ret, r.response)

ParseFinancialPingResponse(product, response) ==
  \E r \in {ParseFinancialPingResponseOp(Store, product, response, now,
                                          access)} :
      /\ call' = [NoCall EXCEPT !.name = "ParseFinancialPingResponse",
                                !.product = product, !.response = response]
      /\ SetStore(r.st)
      /\ Returned(r.ret, <<>>)

\* The system time moves on.
SystemTimePasses ==
  /\ now < MaxTime
  /\ now' = now + 1
  /\ call' = [NoCall EXCEPT !.name = "SystemTimePasses"]
  /\ UNCHANGED <<rlzs, events, stateful, dcc, keys, ping_times, mutex,
                 threads, access, ret, out, checksum_idx, crashed>>

\* What FinancialPing::PingServer(request, &response) can give: the server
\* is not reached, or it answers.
PingServerResults ==
  {[ret |-> FALSE, response |-> <<>>]}
  \cup {[ret |-> TRUE, response |-> response] : response \in AccessResponses}

\* Financial pings of a product whose owner has write access, while the
\* time passes, and the removal of the product.
NextPingTime ==
  \/ SystemTimePasses
  \/ RecordProductEvent("IE_TOOLBAR", "IE_DEFAULT_SEARCH", "INSTALL")
  \/ SetAccessPointRlz("IE_DEFAULT_SEARCH", <<"a", "b", "c">>, FALSE)
  \/ \E access_points \in {NULL, <<"IE_DEFAULT_SEARCH", "NO_ACCESS_POINT">>},
        skip_time_check \in BOOLEAN, server \in PingServerResults :
       SendFinancialPing("IE_TOOLBAR", access_points, skip_time_check, server)
  \/ \E response_buffer_size \in {0, kMaxPingResponseLength},
        server \in PingServerResults :
       PingFinancialServer("IE_TOOLBAR", response_buffer_size, server)
  \/ \E response \in AccessResponses :
       ParseFinancialPingResponse("IE_TOOLBAR", response)
  \/ \E access_points \in {NULL, <<"IE_DEFAULT_SEARCH", "NO_ACCESS_POINT">>} :
       ClearProductState("IE_TOOLBAR", access_points, FALSE)

\* The caller of the financial pings may write to the store.
InitPingTime == InitStore /\ InitMutex /\ access = "write"

SpecPingTime == InitPingTime /\ [][NextPingTime]_vars

\* Permissions: the store is filled and read while the permissions of the
\* caller on the user key change.
NextAccess ==
  \/ \E new_access \in {"write", "read", "none"} : SetKeySecurity(new_access)
  \/ SetMachineDealCode(<<"d", "2">>, FALSE)
  \/ RecordProductEvent("IE_TOOLBAR", "IE_DEFAULT_SEARCH", "INSTALL")
  \/ ClearProductEvent("IE_TOOLBAR", "IE_DEFAULT_SEARCH", "INSTALL", FALSE)
  \/ \E new_rlz \in {<<>>, <<"a", "b", "c", "1", "2", "3">>} :
       SetAccessPointRlz("IE_DEFAULT_SEARCH", new_rlz, FALSE)
  \/ \E response \in AccessResponses :
       ParsePingResponse("IE_TOOLBAR", response, FALSE)
  \/ ClearAllProductEvents("IE_TOOLBAR", FALSE)
  \/ ClearProductState("IE_TOOLBAR",
                       <<"IE_DEFAULT_SEARCH", "NO_ACCESS_POINT">>, FALSE)
  \/ \E cgi_size \in {1, 12} :
       GetProductEventsAsCgi("IE_TOOLBAR", cgi_size, FALSE)
  \/ GetAccessPointRlz("IE_DEFAULT_SEARCH", kMaxRlzLength + 1, FALSE)
  \/ GetPingParams("IE_TOOLBAR", <<"IE_DEFAULT_SEARCH", "NO_ACCESS_POINT">>,
                   kMaxRlzLength + kMaxDccLength + 20, FALSE)

SpecAccess == Init /\ [][NextAccess]_vars

\* The access point lists given to ClearProductState by the specification
\* SpecClear: no list, an empty one, one point, two points.
ClearAccessPoints ==
  {NULL, <<"NO_ACCESS_POINT">>, <<"IE_DEFAULT_SEARCH", "NO_ACCESS_POINT">>,
   <<"IETB_SEARCH_BOX", "IE_DEFAULT_SEARCH", "NO_ACCESS_POINT">>}

\* Product teardown: two products record events and get stateful events,
\* two access points get an RLZ, the deal code is set, and the state of a
\* product is cleared.
NextClear ==
  \/ \E product \in Products :
       RecordProductEvent(product, "IE_DEFAULT_SEARCH", "INSTALL")
  \/ \E product \in Products :
       ParsePingResponse(product,
                         Response(<<"s", "t", "a", "t", "e", "f", "u", "l",
                                    "_", "e", "v", "e", "n", "t", "s", ":",
                                    " ", "I", "7", "I", "\n">>, "good", <<>>),
                         FALSE)
  \/ \E point \in {"IE_DEFAULT_SEARCH", "IETB_SEARCH_BOX"} :
       SetAccessPointRlz(point, <<"a", "b", "c", "1", "2", "3">>, FALSE)
  \/ SetMachineDealCode(<<"d", "2">>, FALSE)
  \/ \E product \in Products, access_points \in ClearAccessPoints,
        lock_failed \in BOOLEAN :
       ClearProductState(product, access_points, lock_failed)

SpecClear == Init /\ [][NextClear]_vars

\* The products given to GetProductEventsAsCgi by the specification SpecCgi:
\* the products of the model and a value that names no product.
CgiProducts == Products \cup {"NO_PRODUCT"}

\* The events string: events of a product are recorded and cleared, and the
\* events of a product with events, of one without and of a value that is no
\* product are asked for with buffers of every size.
NextCgi ==
  \/ \E pair \in {<<"IE_DEFAULT_SEARCH", "INSTALL">>,
                   <<"IETB_SEARCH_BOX", "INSTALL">>,
                   <<"IETB_SEARCH_BOX", "FIRST_SEARCH">>} :
       RecordProductEvent("IE_TOOLBAR", pair[1], pair[2])
  \/ ClearProductEvent("IE_TOOLBAR", "IETB_SEARCH_BOX", "INSTALL", FALSE)
  \/ ClearAllProductEvents("IE_TOOLBAR", FALSE)
  \/ \E product \in CgiProducts, cgi_size \in 0..(kMaxCgiLength + 3),
        lock_failed \in BOOLEAN :
       GetProductEventsAsCgi(product, cgi_size, lock_failed)

SpecCgi == Init /\ [][NextCgi]_vars

\* The machine deal code: it is set by the caller and by ping responses.
NextDcc ==
  \/ \E new_dcc \in {<<>>, <<"d", "1">>}, lock_failed \in BOOLEAN :
       SetMachineDealCode(new_dcc, lock_failed)
  \/ \E response \in DccResponses, lock_failed \in BOOLEAN :
       ParsePingResponse("IE_TOOLBAR", response, lock_failed)
  \/ \E response \in DccResponses : CallSetFromPingResponse(response)

SpecDcc == Init /\ [][NextDcc]_vars

\* The longest name given to the look-ups of names.
MaxNameLength == 2

\* The characters of the names given to the look-ups.
NameChars == {"I", "7", "T", "4", " "}

\* The names given to GetAccessPointFromName and GetEventFromName.
Names ==
  {NULL, <<"T", "4", " ">>, <<"I", "7", "I">>, <<"i", "1">>, <<"i", "7">>,
   <<"F">>, <<"F", " ">>, <<"f">>, <<"I", "F">>}
    \cup UNION {[1..n -> NameChars] : n \in 0..MaxNameLength}

\* The texts given to HexStringToInteger: blanks, an optional 0x, hex digits
\* and what follows them.
HexTexts ==
  {NULL}
    \cup {lead \o prefix \o digits \o rest :
            lead \in {<<>>, <<" ">>, <<" ", "\t", " ">>},
            prefix \in {<<>>, <<"0", "x">>},
            digits \in {<<>>, <<"0">>, <<"1", "2", "f">>,
                        <<"1", "2", "f", "f">>,
                        <<"a", "3", "4", "E", "d", "0">>,
                        <<"0", "0", "0", "a", "3", "4", "E", "d", "0">>,
                        <<"F", "7", "D", "1", "8", "9", "8", "2">>},
            rest \in {<<>>, <<" ", " ", " ">>, <<"g">>,
                      <<" ", "1", "2", "1">>, <<" ", " ", "\n">>,
                      <<"g", "1", "2", "f">>}}

\* The functions of lib_values and string_utils: names are looked up and
\* hex numbers are read.
NextValues ==
  \/ \E name \in Names : CallGetAccessPointFromName(name, "NO_ACCESS_POINT")
  \/ \E name \in {NULL, <<>>, <<"I", "7">>} :
       CallGetAccessPointFromName(name, "NULL")
  \/ \E name \in Names : CallGetEventFromName(name, "INVALID_EVENT")
  \/ \E name \in {NULL, <<>>, <<"I">>} : CallGetEventFromName(name, "NULL")
  \/ \E text \in HexTexts : CallHexStringToInteger(text)

SpecValues == Init /\ [][NextValues]_vars

\* IsPingResponseValid applied to responses.
NextValid == \E response \in CheckResponses : CheckPingResponse(response)

SpecValid == Init /\ [][NextValid]_vars

(***************************************************************************)
(* Concurrent callers and the mutex of the library (class LibMutex).  A    *)
(* call that makes no call of its own is one step: it takes the mutex,     *)
(* runs and gives the mutex back.  RecordProductEvent, ParsePingResponse,  *)
(* GetPingParams and ClearProductState take several steps, between which   *)
(* the other caller may run; threads holds where each caller is in them.   *)
(***************************************************************************)

\* LibMutex::failed() after LibMutex::LibMutex() by the caller: the wait for
\* the mutex is bounded, so that it fails while another caller has the
\* mutex, and while the caller itself has it unless the mutex can be taken
\* again by its owner.
LibMutexFailed(m, caller) ==
  ~(m.owner = 0 \/ (m.owner = caller /\ m.recursive))

\* LibMutex::LibMutex() by the caller: the mutex after it.
LibMutexAcquire(m, caller) ==
  IF LibMutexFailed(m, caller) THEN m
  ELSE [m EXCEPT !.owner = caller, !.count = @ + 1]

\* LibMutex::~LibMutex() of a LibMutex that has or has not acquired.
LibMutexRelease(m, acquired) ==
  IF ~acquired THEN m
  ELSE IF m.count = 1 THEN [m EXCEPT !.owner = 0, !.count = 0]
  ELSE [m EXCEPT !.count = @ - 1]

\* A call a caller is in: the call, where it is in it, whether its LibMutex
\* has acquired, line_end_index and response_length of ParsePingResponse,
\* the calls it has still to make before it goes on, and cgi_string and
\* first_rlz of GetPingParams.
NoFrame ==
  [call |-> NoCall, pc |-> "-", locked |-> FALSE, idx |-> -1, length |-> 0,
   pending |-> <<>>, cgi |-> <<>>, first_rlz |-> TRUE]

\* The innermost call the caller is in.
Top(caller) == threads[caller][Len(threads[caller])]

\* A call that makes no call of its own, on the store st: what it returns,
\* the store after it and the content of its buffer.
ApiCall(st, l, lock_failed) ==
  CASE l.name = "SetAccessPointRlz" ->
         LET r == SetAccessPointRlzOp(st, l.point, l.rlz, lock_failed, access)
         IN  [ret |-> r.ret, st |-> r.st, out |-> <<>>]
    [] l.name = "GetAccessPointRlz" ->
         LET r == GetAccessPointRlzOp(st, l.point, l.size, lock_failed, access)
         IN  [ret |-> r.ret, st |-> st, out |-> r.rlz]
    [] l.name = "ClearProductEvent" ->
         LET r == ClearProductEventOp(st, l.product, l.point, l.event,
                                      lock_failed, access)
         IN  [ret |-> r.ret, st |-> r.st, out |-> <<>>]
    [] l.name = "RecordStatefulEvent" ->
         LET r == RecordStatefulEvent(st, l.product, l.point, l.event,
                                      lock_failed, access)
         IN  [ret |-> r.ret, st |-> r.st, out |-> <<>>]
    [] l.name = "ClearAllProductEventValues" ->
         LET r == ClearAllProductEventValues(st, l.product, l.key,
                                             lock_failed, access)
         IN  [ret |-> r.ret, st |-> r.st, out |-> <<>>]
    [] l.name = "GetProductEventsAsCgi" ->
         LET r == GetProductEventsAsCgiOp(l.product, l.size, lock_failed,
                                          access, l.values)
         IN  [ret |-> r.ret, st |-> st, out |-> r.cgi]
    [] l.name = "SetFromPingResponse" ->
         IF lock_failed THEN [ret |-> FALSE, st |-> st, out |-> <<>>]
         ELSE LET r == SetFromPingResponse(st, l.response)
              IN  [ret |-> r.ret, st |-> r.st, out |-> <<>>]
    [] l.name = "ClearLastPingTime" ->
         [ret |-> TRUE, st |-> ClearLastPingTime(st, l.product), out |-> <<>>]

\* The calls the line loop of ParsePingResponse makes for one non-empty line.
NestedCalls(product, response_line) ==
  LET events_variable == kEventsCgiVariable \o <<":", " ">>
      stateful_events_variable == kStatefulEventsCgiVariable \o <<":", " ">>
      rlz_cgi_length == size(kRlzCgiVariable)
      EventCalls(name, event_array) ==
        [i \in 1..Len(event_array) |->
           [NoCall EXCEPT !.name = name, !.product = product,
                          !.point = event_array[i].access_point,
                          !.event = event_array[i].event_type]]
  IN
  IF StartsWithASCII(response_line, kRlzCgiVariable)
  THEN
    LET separator_index == find(response_line, <<":", " ">>, 0)
        point_name == substr(response_line, 3, separator_index - rlz_cgi_length)
        ap == GetAccessPointFromName(point_name)
        rlz_value == TrimLeading(substrFrom(response_line, separator_index + 2))
        stop == find_first_of(rlz_value, {"\r", "\n", " "})
        rlz_length == IF stop < 0 THEN size(rlz_value) ELSE stop
    IN  IF separator_index < 0 THEN <<>>
        ELSE IF ~ap.ok \/ ap.point = "NO_ACCESS_POINT" THEN <<>>
        ELSE IF rlz_length > kMaxRlzLength THEN <<>>
        ELSE IF IsAccessPointSupported(ap.point)
        THEN <<[NoCall EXCEPT !.name = "SetAccessPointRlz",
                              !.point = ap.point,
                              !.rlz = substr(rlz_value, 0, rlz_length)]>>
        ELSE <<>>
  ELSE IF StartsWithASCII(response_line, events_variable)
  THEN EventCalls("ClearProductEvent",
                  GetEventsFromResponseString(response_line, events_variable))
  ELSE IF StartsWithASCII(response_line, stateful_events_variable)
  THEN EventCalls("RecordStatefulEvent",
                  GetEventsFromResponseString(response_line,
                                              stateful_events_variable))
  ELSE <<>>

\* The access points of a list before NO_ACCESS_POINT.
ListedAccessPoints(access_points) ==
  LET n == CHOOSE i \in 1..Len(access_points) :
             /\ access_points[i] = "NO_ACCESS_POINT"
             /\ \A j \in 1..(i - 1) : access_points[j] # "NO_ACCESS_POINT"
  IN  SubSeq(access_points, 1, n - 1)

\* What a step of a caller leaves in call, ret and out.
Stepped(caller, l, step, lock_failed, r, buffer) ==
  /\ call' = [l EXCEPT !.caller = caller, !.step = step,
                       !.lock_failed = lock_failed]
  /\ ret' = r
  /\ out' = buffer
  /\ checksum_idx' = -1
  /\ crashed' = FALSE
  /\ UNCHANGED <<access, now>>

\* The caller is in a call: the call is the innermost one.
Entered(caller, frame) ==
  threads' = [threads EXCEPT ![caller] = Append(@, frame)]

\* The innermost call of the caller goes on as frame.
Continued(caller, frame) ==
  threads' = [threads EXCEPT ![caller][Len(threads[caller])] = frame]

\* The innermost call of the caller returns and its LibMutex is destroyed.
Left(caller) ==
  /\ threads' = [threads EXCEPT ![caller] = SubSeq(@, 1, Len(@) - 1)]
  /\ mutex' = LibMutexRelease(mutex, Top(caller).locked)

\* A caller that is in no call makes a call that makes no call of its own.
CallerCalls(caller, l) ==
  /\ threads[caller] = <<>>
  /\ \E values \in (IF l.name = "GetProductEventsAsCgi"
                    THEN Enumerations(events[l.product]) ELSE {<<>>}) :
       \E lock_failed \in {LibMutexFailed(mutex, caller)} :
         \E r \in {ApiCall(Store, [l EXCEPT !.values = values],
                           lock_failed)} :
           /\ SetStore(r.st)
           /\ Stepped(caller, [l EXCEPT !.values = values], "call",
                      lock_failed, r.ret, r.out)
  /\ UNCHANGED <<mutex, threads>>

\* A caller makes the next call of the call it is in.
CallerCallsNested(caller) ==
  /\ threads[caller] # <<>>
  /\ Top(caller).pending # <<>>
  /\ \E frame \in {Top(caller)} :
       \E lock_failed \in {LibMutexFailed(mutex, caller)} :
         \E r \in {ApiCall(Store, Head(frame.pending), lock_failed)} :
           /\ SetStore(r.st)
           /\ IF /\ frame.call.name = "GetPingParams"
                 /\ r.ret
                 /\ GetAccessPointName(Head(frame.pending).point) # NULL
              THEN Continued(caller,
                     [frame EXCEPT
                        !.pending = Tail(@),
                        !.cgi = @ \o (IF frame.first_rlz THEN <<>>
                                      ELSE <<kRlzCgiSeparator>>)
                                  \o GetAccessPointName(
                                       Head(frame.pending).point)
                                  \o <<kRlzCgiIndicator>> \o r.out,
                        !.first_rlz = FALSE])
              ELSE Continued(caller, [frame EXCEPT !.pending = Tail(@)])
           /\ Stepped(caller, Head(frame.pending), "nested", lock_failed,
                      r.ret, r.out)
  /\ UNCHANGED mutex

\* RecordProductEvent up to the look-up of the stateful event.
CallerRecordProductEvent(caller, product, point, event) ==
  /\ threads[caller] = <<>>
  /\ \E l \in {[NoCall EXCEPT !.name = "RecordProductEvent",
                              !.product = product, !.point = point,
                              !.event = event]} :
       \E lock_failed \in {LibMutexFailed(mutex, caller)} :
         /\ IF \/ ~HasAccess(access, TRUE)
               \/ GetProductName(product) = NULL
               \/ GetAccessPointName(point) = NULL \/ GetEventName(event) = NULL
               \/ GetAccessPointName(point) = <<>> \/ GetEventName(event) = <<>>
            THEN UNCHANGED <<mutex, threads>>
            ELSE /\ mutex' = LibMutexAcquire(mutex, caller)
                 /\ Entered(caller,
                            [NoFrame EXCEPT !.call = l, !.pc = "check",
                                            !.locked = ~lock_failed])
         /\ Stepped(caller, l, "call", lock_failed, FALSE, <<>>)
  /\ UNCHANGED <<rlzs, events, stateful, dcc, keys, ping_times>>

\* RecordProductEvent: check whether this event is a stateful event.
CallerChecksStateful(caller) ==
  /\ threads[caller] # <<>>
  /\ Top(caller).call.name = "RecordProductEvent"
  /\ Top(caller).pc = "check"
  /\ \E l \in {Top(caller).call} :
       IF EventValueName(l.point, l.event) \in stateful[l.product]
       THEN /\ Left(caller)
            /\ Stepped(caller, l, "check", ~Top(caller).locked, TRUE, <<>>)
       ELSE /\ Continued(caller, [Top(caller) EXCEPT !.pc = "write"])
            /\ Stepped(caller, l, "check", ~Top(caller).locked, FALSE, <<>>)
            /\ UNCHANGED mutex
  /\ UNCHANGED <<rlzs, events, stateful, dcc, keys, ping_times>>

\* RecordProductEvent: write the new event to registry.
CallerWritesEvent(caller) ==
  /\ threads[caller] # <<>>
  /\ Top(caller).call.name = "RecordProductEvent"
  /\ Top(caller).pc = "write"
  /\ \E l \in {Top(caller).call} :
       /\ SetStore([RegKeyCreate(Store, ProductKey(kEventsSubkeyName,
                                                   l.product))
                      EXCEPT !.events[l.product] =
                               @ \cup {EventValueName(l.point, l.event)}])
       /\ Stepped(caller, l, "write", ~Top(caller).locked, TRUE, <<>>)
  /\ Left(caller)

\* ParsePingResponse up to the line loop.
CallerParsePingResponse(caller, product, response) ==
  /\ threads[caller] = <<>>
  /\ response # NULL
  /\ \E l \in {[NoCall EXCEPT !.name = "ParsePingResponse",
                              !.product = product, !.response = response]} :
       \E lock_failed \in {LibMutexFailed(mutex, caller)} :
         \E valid \in {PingResponseValidity[response]} :
           IF lock_failed \/ ~HasAccess(access, TRUE) \/ ~valid.ret
           THEN /\ Stepped(caller, l, "call", lock_failed, FALSE, <<>>)
                /\ UNCHANGED <<mutex, threads>>
           ELSE IF 0 = valid.checksum_idx
           THEN \* Empty response - no parsing.
                /\ Stepped(caller, l, "call", lock_failed, TRUE, <<>>)
                /\ UNCHANGED <<mutex, threads>>
           ELSE /\ mutex' = LibMutexAcquire(mutex, caller)
                /\ Entered(caller,
                           [NoFrame EXCEPT !.call = l, !.pc = "lines",
                                           !.locked = TRUE,
                                           !.length = valid.checksum_idx])
                /\ Stepped(caller, l, "call", lock_failed, FALSE, <<>>)
  /\ UNCHANGED <<rlzs, events, stateful, dcc, keys, ping_times>>

\* ParsePingResponse: one turn of the line loop, up to the calls the line
\* asks for; after the last line MachineDealCode::SetFromPingResponse is
\* left to call.
CallerParsesLine(caller) ==
  /\ threads[caller] # <<>>
  /\ Top(caller).call.name = "ParsePingResponse"
  /\ Top(caller).pc = "lines"
  /\ Top(caller).pending = <<>>
  /\ \E frame \in {Top(caller)} :
       LET response_string == frame.call.response
           line_begin == frame.idx + 1
           next_index == find(response_string, <<"\n">>, line_begin)
           line_end == IF next_index < 0 THEN frame.length ELSE next_index
           response_line == substr(response_string, line_begin,
                                   line_end - line_begin)
           calls == IF line_end <= line_begin THEN <<>>  \* Empty line.
                    ELSE NestedCalls(frame.call.product, response_line)
       IN  /\ IF next_index >= 0
              THEN Continued(caller, [frame EXCEPT !.idx = next_index,
                                                   !.pending = calls])
              ELSE Continued(caller,
                     [frame EXCEPT
                        !.idx = next_index,
                        !.pc = "return",
                        !.pending =
                          calls \o <<[NoCall EXCEPT
                                        !.name = "SetFromPingResponse",
                                        !.response = response_string]>>])
           /\ Stepped(caller, frame.call, "line", FALSE, FALSE, <<>>)
  /\ UNCHANGED <<rlzs, events, stateful, dcc, keys, ping_times, mutex>>

\* ParsePingResponse returns.
CallerReturnsFromParsePingResponse(caller) ==
  /\ threads[caller] # <<>>
  /\ Top(caller).call.name = "ParsePingResponse"
  /\ Top(caller).pc = "return"
  /\ Top(caller).pending = <<>>
  /\ Left(caller)
  /\ Stepped(caller, Top(caller).call, "return", FALSE, TRUE, <<>>)
  /\ UNCHANGED <<rlzs, events, stateful, dcc, keys, ping_times>>

\* GetPingParams up to the loop over the access points.
CallerGetPingParams(caller, product, access_points, cgi_size) ==
  /\ threads[caller] = <<>>
  /\ \E l \in {[NoCall EXCEPT !.name = "GetPingParams", !.product = product,
                              !.access_points = access_points,
                              !.size = cgi_size]} :
       \E lock_failed \in {LibMutexFailed(mutex, caller)} :
         IF cgi_size <= 0
         THEN /\ Stepped(caller, l, "call", FALSE, FALSE, NULL)
              /\ UNCHANGED <<mutex, threads>>
         ELSE IF \/ lock_failed
                 \/ ~HasAccess(access, FALSE)
                 \/ access_points = NULL
         THEN /\ Stepped(caller, l, "call", lock_failed, FALSE, <<>>)
              /\ UNCHANGED <<mutex, threads>>
         ELSE /\ mutex' = LibMutexAcquire(mutex, caller)
              /\ Entered(caller,
                   [NoFrame EXCEPT
                      !.call = l, !.pc = "return", !.locked = TRUE,
                      !.cgi = kProtocolCgiArgument \o <<"&">>
                                \o kRlzCgiVariable \o <<"=">>,
                      !.pending =
                        [i \in 1..Len(ListedAccessPoints(access_points)) |->
                           [NoCall EXCEPT
                              !.name = "GetAccessPointRlz",
                              !.point = access_points[i],
                              !.size = kMaxRlzLength + 1]]])
              /\ Stepped(caller, l, "call", lock_failed, FALSE, <<>>)
  /\ UNCHANGED <<rlzs, events, stateful, dcc, keys, ping_times>>

\* GetPingParams after the loop: the DCC is added and the string copied.
CallerReturnsFromGetPingParams(caller) ==
  /\ threads[caller] # <<>>
  /\ Top(caller).call.name = "GetPingParams"
  /\ Top(caller).pending = <<>>
  /\ \E frame \in {Top(caller)} :
       \E code \in {MachineDealCodeGet(Store, kMaxDccLength + 1)} :
         \E cgi_string \in
              {IF code.ret /\ code.dcc # <<>>
               THEN frame.cgi \o <<"&">> \o kDccCgiVariable \o <<"=">>
                      \o code.dcc
               ELSE frame.cgi} :
           IF size(cgi_string) >= frame.call.size
           THEN Stepped(caller, frame.call, "return", FALSE, FALSE, <<>>)
           ELSE Stepped(caller, frame.call, "return", FALSE, TRUE, cgi_string)
  /\ Left(caller)
  /\ UNCHANGED <<rlzs, events, stateful, dcc, keys, ping_times>>

\* ClearProductState up to the calls that delete the state of the product.
CallerClearProductState(caller, product, access_points) ==
  /\ threads[caller] = <<>>
  /\ \E l \in {[NoCall EXCEPT !.name = "ClearProductState",
                              !.product = product,
                              !.access_points = access_points]} :
       \E lock_failed \in {LibMutexFailed(mutex, caller)} :
         /\ IF lock_failed \/ ~HasAccess(access, TRUE)
            THEN UNCHANGED <<mutex, threads>>
            ELSE /\ mutex' = LibMutexAcquire(mutex, caller)
                 /\ Entered(caller,
                      [NoFrame EXCEPT
                         !.call = l, !.pc = "return", !.locked = TRUE,
                         !.pending =
                           <<[NoCall EXCEPT
                                !.name = "ClearAllProductEventValues",
                                !.product = product, !.key = "events"],
                             [NoCall EXCEPT
                                !.name = "ClearAllProductEventValues",
                                !.product = product, !.key = "stateful"],
                             [NoCall EXCEPT !.name = "ClearLastPingTime",
                                            !.product = product]>>
                           \o (IF access_points = NULL THEN <<>>
                               ELSE [i \in 1..Len(ListedAccessPoints(
                                                    access_points)) |->
                                       [NoCall EXCEPT
                                          !.name = "SetAccessPointRlz",
                                          !.point = access_points[i],
                                          !.rlz = <<>>]])])
         /\ Stepped(caller, l, "call", lock_failed, FALSE, <<>>)
  /\ UNCHANGED <<rlzs, events, stateful, dcc, keys, ping_times>>

\* ClearProductState after the calls: the keys are deleted if empty.
CallerReturnsFromClearProductState(caller) ==
  /\ threads[caller] # <<>>
  /\ Top(caller).call.name = "ClearProductState"
  /\ Top(caller).pending = <<>>
  /\ SetStore(DeleteKeysIfEmpty(Store))
  /\ Stepped(caller, Top(caller).call, "return", FALSE, FALSE, <<>>)
  /\ Left(caller)

\* The responses given to ParsePingResponse by the specification SpecLock.
LockResponses ==
  {Response(<<"r", "l", "z", "I", "7", ":", " ", "1", "R", "3", "_", "e",
              "n", "\n">>, "good", <<>>),
   Response(<<"s", "t", "a", "t", "e", "f", "u", "l", "_", "e", "v", "e",
              "n", "t", "s", ":", " ", "I", "7", "I", "\n">>, "good", <<>>),
   Response(<<"e", "v", "e", "n", "t", "s", ":", " ", "I", "7", "I", "\n">>,
            "good", <<>>)}

\* The calls that make no call of their own, as made in SpecLock.
LockCalls ==
  {[NoCall EXCEPT !.name = "SetAccessPointRlz",
                  !.point = "IE_DEFAULT_SEARCH", !.rlz = <<"a", "b", "c">>],
   [NoCall EXCEPT !.name = "GetAccessPointRlz",
                  !.point = "IE_DEFAULT_SEARCH", !.size = kMaxRlzLength + 1],
   [NoCall EXCEPT !.name = "ClearProductEvent", !.product = "IE_TOOLBAR",
                  !.point = "IE_DEFAULT_SEARCH", !.event = "INSTALL"],
   [NoCall EXCEPT !.name = "GetProductEventsAsCgi",
                  !.product = "IE_TOOLBAR", !.size = kMaxCgiLength + 1]}

\* Two callers with write access call the library at the same time.
NextLock ==
  \E caller \in Callers :
    \/ \E l \in LockCalls : CallerCalls(caller, l)
    \/ CallerCallsNested(caller)
    \/ CallerRecordProductEvent(caller, "IE_TOOLBAR", "IE_DEFAULT_SEARCH",
                                "INSTALL")
    \/ CallerChecksStateful(caller)
    \/ CallerWritesEvent(caller)
    \/ \E response \in LockResponses :
         CallerParsePingResponse(caller, "IE_TOOLBAR", response)
    \/ CallerParsesLine(caller)
    \/ CallerReturnsFromParsePingResponse(caller)
    \/ CallerGetPingParams(caller, "IE_TOOLBAR",
                           <<"IE_DEFAULT_SEARCH", "NO_ACCESS_POINT">>,
                           kMaxRlzLength + kMaxDccLength + 20)
    \/ CallerReturnsFromGetPingParams(caller)
    \/ CallerClearProductState(caller, "IE_TOOLBAR",
                               <<"IE_DEFAULT_SEARCH", "NO_ACCESS_POINT">>)
    \/ CallerReturnsFromClearProductState(caller)

\* The mutex is free; its owner can or cannot take it again.
InitLock ==
  /\ InitStore
  /\ mutex \in {[owner |-> 0, count |-> 0, recursive |-> recursive] :
                  recursive \in BOOLEAN}
  /\ access = "write"

SpecLock == InitLock /\ [][NextLock]_vars

(***************************************************************************)
(* What the calls are expected to do.  In a step of a specification the    *)
(* record call' names the call the step makes and its arguments, and the   *)
(* unprimed variables are the store the call starts from.                  *)
(***************************************************************************)

StoreUnchanged == UNCHANGED <<rlzs, events, stateful, dcc>>

\* The smallest element of a non-empty set of numbers.
Least(S) == CHOOSE x \in S : \A y \in S : x <= y

\* The calls of ParsePingResponse that get past the lock and the access
\* check.
ParseStarts ==
  /\ call'.name = "ParsePingResponse"
  /\ ~call'.lock_failed
  /\ access = "write"

\* C1: ParsePingResponse called with any response for which
\* IsPingResponseValid is false returns failure and leaves the events, the
\* stateful events, every stored RLZ value and the deal code as they were.
C1_InvalidResponseRejected ==
  [][(/\ call'.name = "ParsePingResponse"
      /\ ~PingResponseValidity[call'.response].ret)
     => (~crashed' /\ ~ret' /\ StoreUnchanged)]_vars

\* C1 for the responses that are not null: the call returns failure and
\* changes nothing.
C1_NonNullInvalidResponseRejected ==
  [][(/\ call'.name = "ParsePingResponse"
      /\ call'.response # NULL
      /\ ~PingResponseValidity[call'.response].ret)
     => (~crashed' /\ ~ret' /\ StoreUnchanged)]_vars

\* An invalid response is rejected by a caller that holds the lock and has
\* write access, with events in the store.
C1_Witness ==
  /\ call.name = "ParsePingResponse"
  /\ ~call.lock_failed
  /\ access = "write"
  /\ call.response # NULL
  /\ call.response # <<>>
  /\ Len(call.response) <= kMaxPingResponseLength
  /\ ~PingResponseValidity[call.response].ret
  /\ ~ret
  /\ events["IE_TOOLBAR"] # {}

\* C2: for every valid response, ParsePingResponse changes the RLZ values
\* and the event sets only as the lines of the checked region (the bytes
\* before the checksum line) say: a line after the checksum line changes no
\* RLZ value and no event set.
C2_OnlyCheckedLinesApplied ==
  [][(/\ ParseStarts
      /\ call'.response # NULL
      /\ PingResponseValidity[call'.response].ret)
     => LET idx == PingResponseValidity[call'.response].checksum_idx
            applied == IF idx = 0 THEN Store
                       ELSE ParseResponseLines(
                              Store, call'.product,
                              substr(call'.response, 0, idx), idx, -1, access)
        IN  /\ rlzs' = applied.rlzs
            /\ events' = applied.events
            /\ stateful' = applied.stateful]_vars

\* The 0-based indexes at which a newline followed by "crc32: " starts.
C3_ChecksumLines(response) ==
  {i \in 0..(Len(response) - 8) :
     SubSeq(response, i + 1, i + 8) = <<"\n">> \o kChecksumLine}

\* The value of a checksum line: the text from the 0-based index from up
\* to the end of the line, trimmed and read as a hex number.
C3_Value(response, from) ==
  LET ends == {j \in (from + 1)..Len(response) : response[j] = "\n"}
      stop == IF ends = {} THEN Len(response) + 1 ELSE Least(ends)
  IN  HexStringToInteger(TrimAll(SubSeq(response, from + 1, stop - 1)))

C3_BeginsWithChecksum(response) ==
  /\ Len(response) >= 7
  /\ SubSeq(response, 1, 7) = kChecksumLine

\* The checksum line at i has the checksum of the bytes before it, its
\* newline included.
C3_Matches(response, i) ==
  Crc32(SubSeq(response, 1, i + 1)) = C3_Value(response, i + 8)

\* C3 as stated: IsPingResponseValid is true exactly when (a) the response
\* contains a checksum line right after a newline whose value is the CRC32
\* of all preceding bytes including that newline, or (b) it has no such
\* line but begins with a checksum line whose value is the CRC32 of the
\* empty string; the reported offset is the position of the checksum line.
C3_AnyChecksumLineAccepted ==
  call.name = "IsPingResponseValid" =>
    LET response == call.response
        lines == IF response = NULL THEN {} ELSE C3_ChecksumLines(response)
        good == {i \in lines : C3_Matches(response, i)}
        alone == /\ response # NULL
                 /\ lines = {}
                 /\ C3_BeginsWithChecksum(response)
                 /\ C3_Value(response, 7) = Crc32(<<>>)
    IN  /\ ret <=> (good # {} \/ alone)
        /\ ret => IF alone THEN checksum_idx = 0 ELSE checksum_idx \in good

\* C3, amended: IsPingResponseValid is true exactly when the response is
\* not null, not empty, at most kMaxPingResponseLength long, and either
\* (a) it contains a newline followed by "crc32: " and, at the first such
\* place, the CRC32 of the bytes up to and including that newline equals
\* the value read from the rest of that line, or (b) it contains none but
\* begins with "crc32: " and the value read is 0, the CRC32 of the empty
\* string.  The value read is that of the hex digits that follow optional
\* whitespace and an optional 0x, up to the first other character (0 when
\* there is none).  The reported offset is the index of that newline in
\* case (a) and 0 in case (b).
C3_FirstChecksumLineDecides ==
  call.name = "IsPingResponseValid" =>
    LET response == call.response
        lines == IF response = NULL THEN {} ELSE C3_ChecksumLines(response)
        accepted ==
          /\ response # NULL
          /\ response # <<>>
          /\ Len(response) <= kMaxPingResponseLength
          /\ IF lines # {} THEN C3_Matches(response, Least(lines))
             ELSE /\ C3_BeginsWithChecksum(response)
                  /\ C3_Value(response, 7) = Word(0, 0)
    IN  /\ ret <=> accepted
        /\ ret => checksum_idx = (IF lines # {} THEN Least(lines) ELSE 0)

\* A response with two checksum lines is accepted on the first one.
C3_Witness ==
  /\ call.name = "IsPingResponseValid"
  /\ ret
  /\ checksum_idx = 1
  /\ Cardinality(C3_ChecksumLines(call.response)) = 2

\* C4 as stated: the CRC32 of "Hello" is 0xF7D18982, the response
\* "Hello\ncrc32: F7D18982" is accepted by IsPingResponseValid and the
\* response "Hello\ncrc32: F7D18983" is rejected.
C4_HelloChecksumAccepted ==
  /\ Crc32(<<"H", "e", "l", "l", "o">>) = Word(63441, 35202)
  /\ call.name = "IsPingResponseValid" =>
       /\ call.response = <<"H", "e", "l", "l", "o", "\n", "c", "r", "c",
                            "3", "2", ":", " ", "F", "7", "D", "1", "8",
                            "9", "8", "2">> => ret
       /\ call.response = <<"H", "e", "l", "l", "o", "\n", "c", "r", "c",
                            "3", "2", ":", " ", "F", "7", "D", "1", "8",
                            "9", "8", "3">> => ~ret

\* C4, amended: the CRC32 of "Hello" is 0xF7D18982, but the checksum of a
\* response covers the newline before the checksum line, so the response
\* "Hello\ncrc32: 31963516" (the CRC32 of "Hello\n") is accepted by
\* IsPingResponseValid, and the responses "Hello\ncrc32: F7D18982" and
\* "Hello\ncrc32: F7D18983" are both rejected.
C4_HelloNewlineChecksumAccepted ==
  /\ Crc32(<<"H", "e", "l", "l", "o">>) = Word(63441, 35202)
  /\ call.name = "IsPingResponseValid" =>
       /\ call.response = <<"H", "e", "l", "l", "o", "\n", "c", "r", "c",
                            "3", "2", ":", " ", "3", "1", "9", "6", "3",
                            "5", "1", "6">> =>
            (ret /\ checksum_idx = 5)
       /\ call.response = <<"H", "e", "l", "l", "o", "\n", "c", "r", "c",
                            "3", "2", ":", " ", "F", "7", "D", "1", "8",
                            "9", "8", "2">> => ~ret
       /\ call.response = <<"H", "e", "l", "l", "o", "\n", "c", "r", "c",
                            "3", "2", ":", " ", "F", "7", "D", "1", "8",
                            "9", "8", "3">> => ~ret

C4_Witness ==
  /\ call.name = "IsPingResponseValid"
  /\ call.response = <<"H", "e", "l", "l", "o", "\n", "c", "r", "c", "3",
                       "2", ":", " ", "F", "7", "D", "1", "8", "9", "8", "2">>
  /\ ~ret

\* C5: the response "crc32: 0x0" is valid, and ParsePingResponse (holding
\* the lock, with write access) on any valid response whose checked region
\* is empty (checksum offset 0) returns success and changes no RLZ value,
\* no event set and not the deal code.
C5_EmptyResponseAccepted ==
  /\ [](call.name = "IsPingResponseValid" /\ call.response = <<"c", "r",
                                "c", "3", "2", ":", " ", "0", "x", "0">>
          => ret /\ checksum_idx = 0)
  /\ [][(/\ ParseStarts
         /\ call'.response # NULL
         /\ PingResponseValidity[call'.response].ret
         /\ PingResponseValidity[call'.response].checksum_idx = 0)
        => (ret' /\ ~crashed' /\ StoreUnchanged)]_vars

C5_Witness ==
  /\ call.name = "ParsePingResponse"
  /\ call.response = <<"c", "r", "c", "3", "2", ":", " ", "0", "\n", "r",
                       "l", "z", "I", "7", ":", " ", "l", "a", "t", "e", "\n">>
  /\ ret
  /\ rlzs = <<>>
  /\ events["IE_TOOLBAR"] # {}

\* C6: IsPingResponseValid rejects every null response, every empty
\* response and every response longer than kMaxPingResponseLength, whatever
\* its checksum line; ParsePingResponse on an over-long response fails and
\* changes nothing.
C6_NullEmptyAndLongRejected ==
  /\ []((/\ call.name = "IsPingResponseValid"
         /\ \/ call.response = NULL
            \/ call.response = <<>>
            \/ Len(call.response) > kMaxPingResponseLength)
          => ~ret)
  /\ [][(/\ call'.name = "ParsePingResponse"
         /\ call'.response # NULL
         /\ Len(call'.response) > kMaxPingResponseLength)
        => (~ret' /\ ~crashed' /\ StoreUnchanged)]_vars

C6_Witness ==
  /\ call.name = "ParsePingResponse"
  /\ call.response = TooLongResponse
  /\ ~call.lock_failed
  /\ access = "write"
  /\ ~ret
  /\ rlzs = <<>>
  /\ events["IE_TOOLBAR"] # {}

\* The access points the library supports among those of the model.
SupportedPoints == {"IE_DEFAULT_SEARCH", "IETB_SEARCH_BOX"}

\* The characters of a stored RLZ value: alphanumerics and the punctuation
\* the library lets through.
GoodRlzChars ==
  {"a", "b", "c", "d", "e", "f", "g", "h", "i", "j", "k", "l", "m",
   "n", "o", "p", "q", "r", "s", "t", "u", "v", "w", "x", "y", "z",
   "A", "B", "C", "D", "E", "F", "G", "H", "I", "J", "K", "L", "M",
   "N", "O", "P", "Q", "R", "S", "T", "U", "V", "W", "X", "Y", "Z",
   "0", "1", "2", "3", "4", "5", "6", "7", "8", "9",
   "_", "-", "!", "@", "$", "*", "(", ")", ";", ".", "<", ">"}

\* C7: in every reachable state, every stored RLZ value has a length
\* between 1 and kMaxRlzLength and consists only of alphanumerics and the
\* whitelisted punctuation characters.
C7_StoredRlzIsNormalized ==
  \A point \in DOMAIN rlzs :
    /\ Len(rlzs[point]) >= 1
    /\ Len(rlzs[point]) <= kMaxRlzLength
    /\ \A i \in 1..Len(rlzs[point]) : rlzs[point][i] \in GoodRlzChars

C7_Witness ==
  /\ call.name = "SetAccessPointRlz"
  /\ call.rlz = <<"a", "/", "b", " ", "c">>
  /\ call.point \in DOMAIN rlzs
  /\ rlzs[call.point] = <<"a", ".", "b", ".", "c">>

\* The value with each character outside GoodRlzChars replaced by ".".
C8_Normalized(v) ==
  [i \in 1..Len(v) |-> IF v[i] \in GoodRlzChars THEN v[i] ELSE "."]

\* C8: for every supported access point and every non-empty value v of
\* length <= kMaxRlzLength, SetAccessPointRlz (holding the lock, with write
\* access) succeeds, and a following GetAccessPointRlz of that point into a
\* buffer that holds the value returns v with each disallowed character
\* replaced by "." and every allowed character kept: "abc123" reads back
\* unchanged and "a/b c" reads back as "a.b.c".
C8_SetThenGet ==
  /\ []((/\ call.name = "SetAccessPointRlz"
         /\ ~call.lock_failed
         /\ access = "write"
         /\ call.point \in SupportedPoints
         /\ call.rlz # NULL
         /\ Len(call.rlz) >= 1
         /\ Len(call.rlz) <= kMaxRlzLength)
          => ret)
  /\ [][(/\ call.name = "SetAccessPointRlz"
         /\ ret
         /\ call.rlz # <<>>
         /\ call'.name = "GetAccessPointRlz"
         /\ call'.point = call.point
         /\ ~call'.lock_failed
         /\ call'.size > Len(call.rlz))
        => /\ ret'
           /\ out' = C8_Normalized(call.rlz)
           /\ Len(out') = Len(call.rlz)
           /\ call.rlz = <<"a", "b", "c", "1", "2", "3">> => out' = <<"a",
                           "b", "c", "1", "2", "3">>
           /\ call.rlz = <<"a", "/", "b", " ", "c">> => out' = <<"a", ".",
                           "b", ".", "c">>]_vars

C8_Witness ==
  /\ call.name = "GetAccessPointRlz"
  /\ call.point = "IETB_SEARCH_BOX"
  /\ ret
  /\ out = <<"a", ".", "b", ".", "c">>

\* C9: SetAccessPointRlz with a value longer than kMaxRlzLength, or with an
\* access point that is not supported, returns failure and leaves the
\* stored RLZ value of every access point unchanged.
C9_RejectedSetChangesNothing ==
  [][(/\ call'.name = "SetAccessPointRlz"
      /\ \/ call'.point \notin SupportedPoints
         \/ call'.rlz # NULL /\ Len(call'.rlz) > kMaxRlzLength)
     => (~ret' /\ UNCHANGED rlzs)]_vars

C9_Witness ==
  /\ call.name = "SetAccessPointRlz"
  /\ call.rlz = TooLongRlz
  /\ call.point \in SupportedPoints
  /\ ~call.lock_failed
  /\ access = "write"
  /\ ~ret
  /\ call.point \in DOMAIN rlzs

\* The calls of GetAccessPointRlz with a buffer that get past the lock and
\* the access check.
C10_GetStarted ==
  /\ call.name = "GetAccessPointRlz"
  /\ call.size > 0
  /\ ~call.lock_failed
  /\ access \in {"read", "write"}

CgiTokens(cgi) ==
  IF cgi = NULL \/ Len(cgi) < 10 THEN {}
  ELSE {SubSeq(cgi, 8 + 4 * k, 10 + 4 * k) : k \in 0..((Len(cgi) - 10) \div 4)}

\* C12, as far as it holds: once a pair is in the stateful set of P, every
\* RecordProductEvent(P, AP, E) returns success and leaves the transient set
\* of P, and the rest of the store, unchanged.
C12_RecordAfterStatefulChangesNothing ==
  [][(/\ call'.name = "RecordProductEvent"
      /\ EventValueName(call'.point, call'.event) \in stateful[call'.product])
     => (ret' /\ StoreUnchanged)]_vars

\* C12: after RecordStatefulEvent(P, AP, E) has succeeded, that is while the
\* token AP+E is in the stateful set of P, every RecordProductEvent(P, AP, E)
\* returns success and leaves P's transient set unchanged, and the token
\* never appears in the output of GetProductEventsAsCgi(P).
C12_StatefulEventNeverReported ==
  [][/\ (/\ call'.name = "RecordProductEvent"
         /\ EventValueName(call'.point, call'.event)
              \in stateful[call'.product])
        => (ret' /\ events' = events)
     /\ call'.name = "GetProductEventsAsCgi"
        => CgiTokens(out') \cap stateful[call'.product] = {}]_vars

\* A pair that is stateful has been recorded again: the call succeeded and
\* the transient set is empty.
C12_Witness ==
  /\ call.name = "RecordProductEvent"
  /\ call.product = "IE_TOOLBAR"
  /\ EventValueName(call.point, call.event) \in stateful["IE_TOOLBAR"]
  /\ ret
  /\ events["IE_TOOLBAR"] = {}

\* C13: in every reachable state, no (AccessPoint, Event) token of a product
\* is present in both the stateful set and the transient set of that
\* product.
C13_StatefulAndTransientDisjoint ==
  \A product \in Products : events[product] \cap stateful[product] = {}

\* C13, as far as it holds: no call adds to the transient set of a product a
\* token that is in the stateful set of that product.
C13_NoStatefulTokenBecomesTransient ==
  [][\A product \in Products :
       (events'[product] \ events[product])
         \cap (stateful[product] \cup stateful'[product]) = {}]_vars

\* A stateful pair was recorded again and the two sets are disjoint.
C13_Witness ==
  /\ call.name = "RecordProductEvent"
  /\ EventValueName(call.point, call.event) \in stateful[call.product]
  /\ events[call.product] # {}
  /\ events[call.product] \cap stateful[call.product] = {}

RECURSIVE C14_Joined(_, _)
\* The names values[i..] joined by commas.
C14_Joined(values, i) ==
  IF i > Len(values) THEN <<>>
  ELSE IF i = Len(values) THEN values[i]
  ELSE values[i] \o <<",">> \o C14_Joined(values, i + 1)

\* C14: GetProductEventsAsCgi(P), holding the lock with read access and
\* given a buffer with room for the whole string, its terminator and one
\* more character (the room the loop asks for before it enumerates), returns
\* success with "events=" followed by all and only the transient tokens of
\* P, comma-separated with no leading or trailing comma, in the order the
\* store enumerates them; if P has no transient events it returns failure
\* with an empty buffer.
C14_EventsCgiListsTransientTokens ==
  [][(/\ call'.name = "GetProductEventsAsCgi"
      /\ ~call'.lock_failed
      /\ access \in {"read", "write"}
      /\ call'.size > 8 + Len(C14_Joined(call'.values, 1)))
     => /\ {call'.values[i] : i \in 1..Len(call'.values)}
             = events[call'.product]
        /\ Len(call'.values) = Cardinality(events[call'.product])
        /\ IF events[call'.product] = {}
           THEN ~ret' /\ out' = <<>>
           ELSE /\ ret'
                /\ out' = <<"e", "v", "e", "n", "t", "s", "=">>
                            \o C14_Joined(call'.values, 1)
                /\ CgiTokens(out') = events[call'.product]
                /\ out'[8] # ","
                /\ out'[Len(out')] # ","]_vars

\* Three events are reported in an order that is not the alphabetical one,
\* while another product has an event of its own.
C14_Witness ==
  /\ call.name = "GetProductEventsAsCgi"
  /\ ret
  /\ out = <<"e", "v", "e", "n", "t", "s", "=", "T", "4", "I", ",", "I", "7",
             "I", ",", "T", "4", "F">>
  /\ events["CHROME"] # {}

\* The calls that fill a buffer of the caller with a CGI string.
C15_CgiCalls ==
  {"GetProductEventsAsCgi", "GetPingParams", "FormFinancialPingRequest"}

RECURSIVE C16_Entries(_, _, _, _)
\* The entries <AP><indicator><value> of the points of access_points[i..],
\* up to NO_ACCESS_POINT, that are in the set included, comma-separated.
C16_Entries(access_points, i, included, first) ==
  IF access_points[i] = "NO_ACCESS_POINT" THEN <<>>
  ELSE IF access_points[i] \in included
  THEN (IF first THEN <<>> ELSE <<",">>)
         \o GetAccessPointName(access_points[i]) \o <<":">>
         \o (IF access_points[i] \in DOMAIN rlzs THEN rlzs[access_points[i]]
             ELSE <<>>)
         \o C16_Entries(access_points, i + 1, included, FALSE)
  ELSE C16_Entries(access_points, i + 1, included, first)

\* The request parameters with an entry for the points in the set included.
C16_Params(access_points, included) ==
  <<"r", "e", "p", "=", "2", "&", "r", "l", "z", "=">>
    \o C16_Entries(access_points, 1, included, TRUE)
    \o (IF dcc # <<>> THEN <<"&", "d", "c", "c", "=">> \o dcc ELSE <<>>)

\* The calls of GetPingParams that hold the lock, have read access, an
\* access point list and a buffer for the whole string.
C16_Built ==
  /\ call.name = "GetPingParams"
  /\ ~call.lock_failed
  /\ access \in {"read", "write"}
  /\ call.access_points # NULL
  /\ call.size > 2 * kMaxRlzLength + kMaxDccLength + 23

C17_LineStarts(text) ==
  {b \in 1..Len(text) : b = 1 \/ text[b - 1] = "\n"}

\* The line of a text that starts at position b, without its newline.
C17_Line(text, b) ==
  SubSeq(text, b,
         (CHOOSE e \in b..(Len(text) + 1) :
            /\ e = Len(text) + 1 \/ text[e] = "\n"
            /\ \A i \in b..(e - 1) : text[i] # "\n") - 1)

\* The line is "rlz", the code of the access point, ": " and a value.
C17_Names(line, point) ==
  /\ Len(line) >= 7
  /\ SubSeq(line, 1, 7)
       = <<"r", "l", "z">> \o GetAccessPointName(point) \o <<":", " ">>

\* The value of such a line: what follows ": " and leading whitespace, up to
\* the first space, CR or LF.
C17_Value(line) ==
  LET rest == SubSeq(line, 8, Len(line))
      from == CHOOSE i \in 1..(Len(rest) + 1) :
                /\ i = Len(rest) + 1 \/ rest[i] \notin {" ", "\t", "\r"}
                /\ \A j \in 1..(i - 1) : rest[j] \in {" ", "\t", "\r"}
      to == CHOOSE i \in from..(Len(rest) + 1) :
              /\ i = Len(rest) + 1 \/ rest[i] \in {" ", "\r", "\n"}
              /\ \A j \in from..(i - 1) : rest[j] \notin {" ", "\r", "\n"}
  IN  SubSeq(rest, from, to - 1)

\* The starts of the lines of the text that name the access point with a
\* value of at most kMaxRlzLength characters.
C17_Setting(text, point) ==
  {b \in C17_LineStarts(text) :
     /\ C17_Names(C17_Line(text, b), point)
     /\ Len(C17_Value(C17_Line(text, b))) <= kMaxRlzLength}

\* The largest element of a non-empty set of numbers.
C17_Last(S) == CHOOSE x \in S : \A y \in S : y <= x

\* The validated region of a valid response: the text before the newline of
\* the checksum line.
C17_Region(response) ==
  SubSeq(response, 1, PingResponseValidity[response].checksum_idx)

\* The responses of the model that are valid.
C17_ValidResponses ==
  {response \in AllResponses \ {NULL} : PingResponseValidity[response].ret}

\* What the rlz lines of the validated region of each valid response ask
\* for: for every supported access point the value of the last line that
\* names it with a value of acceptable length, NULL when there is none.
C17_Asked ==
  [response \in C17_ValidResponses |->
     [point \in SupportedPoints |->
        IF C17_Setting(C17_Region(response), point) = {} THEN NULL
        ELSE C17_Value(C17_Line(C17_Region(response),
                                C17_Last(C17_Setting(C17_Region(response),
                                                     point))))]]

\* The stored RLZ values are what the rlz lines of the validated region ask
\* for: the value asked for, normalized (no value when that is empty), and
\* the value stored before for an access point no line sets.
C17_Stored(response) ==
  \A point \in SupportedPoints :
    LET v == C17_Asked[response][point]
    IN  IF v = NULL
        THEN /\ point \in DOMAIN rlzs' <=> point \in DOMAIN rlzs
             /\ point \in DOMAIN rlzs => rlzs'[point] = rlzs[point]
        ELSE IF v = <<>> THEN point \notin DOMAIN rlzs'
        ELSE /\ point \in DOMAIN rlzs'
             /\ rlzs'[point] = C8_Normalized(v)

\* The response whose only line is "rlzI7: 1R3_en".
C17_Example ==
  Response(<<"r", "l", "z", "I", "7", ":", " ", "1", "R", "3", "_", "e",
             "n", "\n">>, "good", <<>>)

\* The calls of ParsePingResponse with a valid response that get past the
\* lock and the access check.
C17_Parsed ==
  /\ ParseStarts
  /\ call'.response # NULL
  /\ PingResponseValidity[call'.response].ret

\* C17: for a checksum-valid response whose validated region contains the
\* line rlz<AP>: <value> with a known, supported access point code and a
\* value (cut at the first space, CR or LF) of length <= kMaxRlzLength,
\* ParsePingResponse leaves the stored RLZ of AP equal to the normalized
\* value (of the last such line), so that "rlzI7: 1R3_en" gives "1R3_en";
\* a value longer than kMaxRlzLength leaves the stored RLZ unchanged.
C17_RlzLineSetsValue ==
  [][C17_Parsed
     => /\ C17_Stored(call'.response)
        /\ call'.response = C17_Example
             => (/\ "IE_DEFAULT_SEARCH" \in DOMAIN rlzs'
                 /\ rlzs'["IE_DEFAULT_SEARCH"]
                      = <<"1", "R", "3", "_", "e", "n">>)]_vars

\* No line follows the checksum line of the response.
C17_EndsWithChecksumLine(response) ==
  \A i \in 1..Len(response) :
    i > PingResponseValidity[response].checksum_idx + 1 => response[i] # "\n"

\* C17 for the responses that end with their checksum line.
C17_RlzLineSetsValueUnlessLateLine ==
  [][(C17_Parsed /\ C17_EndsWithChecksumLine(call'.response))
     => C17_Stored(call'.response)]_vars

\* A response has set the value of one access point, left the value of its
\* over-long line aside and deleted the value of another access point.
C17_Witness ==
  /\ call.name = "ParsePingResponse"
  /\ ret
  /\ call.response \in RlzResponses
  /\ C17_Asked[call.response]["IETB_SEARCH_BOX"] = <<>>
  /\ DOMAIN rlzs = {"IE_DEFAULT_SEARCH"}
  /\ rlzs["IE_DEFAULT_SEARCH"] = <<"x", "1">>

\* The value of a line that starts with a header of n characters: what
\* follows the header and leading whitespace, up to the first space, CR or
\* LF.
C19_Field(line, n) ==
  LET rest == SubSeq(line, n + 1, Len(line))
      from == CHOOSE i \in 1..(Len(rest) + 1) :
                /\ i = Len(rest) + 1 \/ rest[i] \notin {" ", "\t", "\r"}
                /\ \A j \in 1..(i - 1) : rest[j] \in {" ", "\t", "\r"}
      to == CHOOSE i \in from..(Len(rest) + 1) :
              /\ i = Len(rest) + 1 \/ rest[i] \in {" ", "\r", "\n"}
              /\ \A j \in from..(i - 1) : rest[j] \notin {" ", "\r", "\n"}
  IN  SubSeq(rest, from, to - 1)

\* The non-empty tokens of a comma-separated list.
C19_Tokens(v) ==
  {SubSeq(v, p[1], p[2]) :
     p \in {r \in (1..Len(v)) \X (1..Len(v)) :
              /\ r[1] <= r[2]
              /\ r[1] = 1 \/ v[r[1] - 1] = ","
              /\ r[2] = Len(v) \/ v[r[2] + 1] = ","
              /\ \A i \in r[1]..r[2] : v[i] # ","}}

\* The tokens that decode to a valid pair: three characters, the code of an
\* access point other than NO_ACCESS_POINT and the code of an event other
\* than INVALID_EVENT.
C19_ValidTokens ==
  {t \in {EventValueName(point, event) :
            point \in AccessPoints \ {"NO_ACCESS_POINT", "LAST_ACCESS_POINT"},
            event \in Events \ {"INVALID_EVENT"}} : Len(t) = 3}

\* The valid tokens named by the lines of the text that start with the
\* header.
C19_Named(text, header) ==
  UNION {C19_Tokens(C19_Field(C17_Line(text, b), Len(header)))
           \cap C19_ValidTokens :
         b \in {x \in C17_LineStarts(text) :
                  /\ Len(C17_Line(text, x)) >= Len(header)
                  /\ SubSeq(C17_Line(text, x), 1, Len(header)) = header}}

\* The valid tokens named by the events lines and by the stateful_events
\* lines of the validated region of each valid response.
C19_NamedBy ==
  [response \in C17_ValidResponses |->
     [events |-> C19_Named(C17_Region(response),
                           kEventsCgiVariable \o <<":", " ">>),
      stateful_events |-> C19_Named(C17_Region(response),
                                    kStatefulEventsCgiVariable \o <<":", " ">>)]]

\* The events of the products other than the one of the call are unchanged.
C19_OtherProductsUnchanged ==
  \A product \in Products \ {call'.product} :
    /\ events'[product] = events[product]
    /\ stateful'[product] = stateful[product]

\* C18: for a checksum-valid response with a non-empty validated region,
\* ParsePingResponse returns success and applies every well-formed
\* recognized line even when other lines are malformed or unrecognized (an
\* rlz line without ": ", an unknown access point code, an over-long value,
\* an unknown prefix, an empty line): a malformed line changes nothing and
\* never prevents a later line from being applied.
C18_MalformedLinesSkipped ==
  [][(/\ C17_Parsed
      /\ PingResponseValidity[call'.response].checksum_idx > 0)
     => LET named == C19_NamedBy[call'.response]
        IN  /\ ret'
            /\ C17_Stored(call'.response)
            /\ events'[call'.product] = events[call'.product] \ named.events
            /\ stateful'[call'.product]
                 = stateful[call'.product] \cup named.stateful_events
            /\ C19_OtherProductsUnchanged
            /\ dcc' = dcc]_vars

\* A response with all five kinds of malformed lines before its last line
\* has been parsed over stored values: the last line was applied and nothing
\* else has changed.
C18_Witness ==
  /\ call.name = "ParsePingResponse"
  /\ call.response
       = Response(JoinLines(LineBodyLines, {2, 3, 5, 6, 7, 9}, 1), "good", <<>>)
  /\ ret
  /\ DOMAIN rlzs = {"IE_DEFAULT_SEARCH", "IETB_SEARCH_BOX"}
  /\ rlzs["IE_DEFAULT_SEARCH"] = <<"a", "b", "c", "1", "2", "3">>
  /\ rlzs["IETB_SEARCH_BOX"] = <<"1", "T", "4">>
  /\ events["IE_TOOLBAR"] = {<<"T", "4", "F">>}
  /\ stateful["IE_TOOLBAR"] = {}

\* C19: for each "events: T1,T2,..." line in the validated region of a valid
\* response, after ParsePingResponse(P, ...) every token Ti that decodes to
\* a valid pair (exactly 3 characters, known access point code that is not
\* NO_ACCESS_POINT, known event code that is not INVALID_EVENT) is absent
\* from P's transient set; tokens that fail to decode are skipped
\* individually, and transient tokens of P not named on the line are
\* unchanged.
C19_EventsLineClearsNamedTokens ==
  [][C17_Parsed
     => /\ events'[call'.product] \cap C19_NamedBy[call'.response].events = {}
        /\ events'[call'.product]
             = events[call'.product] \ C19_NamedBy[call'.response].events]_vars

\* C19 for the responses that end with their checksum line.
C19_EventsLineClearsNamedTokensUnlessLateLine ==
  [][(C17_Parsed /\ C17_EndsWithChecksumLine(call'.response))
     => (events'[call'.product]
           = events[call'.product] \ C19_NamedBy[call'.response].events)]_vars

\* An events line with one valid token among tokens that do not decode has
\* been parsed: a transient token it does not name is still there.
C19_Witness ==
  /\ call.name = "ParsePingResponse"
  /\ ret
  /\ call.response \in EventResponses
  /\ C19_NamedBy[call.response].events = {<<"T", "4", "F">>}
  /\ events["IE_TOOLBAR"] = {<<"I", "7", "I">>}

\* C20: for each "stateful_events: T1,T2,..." line in the validated region
\* of a valid response, after ParsePingResponse(P, ...) every token Ti that
\* decodes to a valid pair is present in P's stateful set, undecodable
\* tokens are skipped individually, and recording a pair that is already
\* stateful changes nothing.
C20_StatefulEventsLineRecordsNamedTokens ==
  [][C17_Parsed
     => /\ C19_NamedBy[call'.response].stateful_events
             \subseteq stateful'[call'.product]
        /\ stateful'[call'.product]
             = stateful[call'.product]
                 \cup C19_NamedBy[call'.response].stateful_events
        /\ C19_NamedBy[call'.response].stateful_events
             \subseteq stateful[call'.product]
             => stateful' = stateful
        /\ \A product \in Products \ {call'.product} :
             stateful'[product] = stateful[product]]_vars

\* A stateful_events line with one valid token among tokens that do not
\* decode has been parsed when another pair was stateful.
C20_Witness ==
  /\ call.name = "ParsePingResponse"
  /\ ret
  /\ call.response \in EventResponses
  /\ C19_NamedBy[call.response].stateful_events = {<<"T", "4", "F">>}
  /\ C19_NamedBy[call.response].events = {}
  /\ stateful["IE_TOOLBAR"] = {<<"I", "7", "I">>, <<"T", "4", "F">>}

\* The names of the access points and of the events that have one.
C28_Names(Name(_), values) ==
  {Name(v) : v \in {w \in values : Name(w) # NULL}}

\* C28: GetAccessPointFromName(name, &point) returns true with the matching
\* access point only when name is exactly, case-sensitively and without
\* extra characters, a known access point code (I7, T4); it returns true
\* with NO_ACCESS_POINT for the empty name; for NULL or any other name (i1,
\* "T4 ") it returns false and sets point to NO_ACCESS_POINT;
\* GetEventFromName behaves the same way with INVALID_EVENT (I, F known; i1,
\* "F " rejected); a NULL output pointer returns false.
C28_NamesLookedUpExactly ==
  /\ call.name = "GetAccessPointFromName"
       => IF call.point = "NULL" THEN ~ret
          ELSE IF call.rlz = <<>> THEN ret /\ out = <<"NO_ACCESS_POINT">>
          ELSE IF call.rlz \in C28_Names(GetAccessPointName, AccessPoints)
          THEN /\ ret
               /\ GetAccessPointName(out[1]) = call.rlz
               /\ call.rlz = <<"I", "7">> => out = <<"IE_DEFAULT_SEARCH">>
               /\ call.rlz = <<"T", "4">> => out = <<"IETB_SEARCH_BOX">>
          ELSE ~ret /\ out = <<"NO_ACCESS_POINT">>
  /\ call.name = "GetEventFromName"
       => IF call.event = "NULL" THEN ~ret
          ELSE IF call.rlz = <<>> THEN ret /\ out = <<"INVALID_EVENT">>
          ELSE IF call.rlz \in C28_Names(GetEventName, Events)
          THEN /\ ret
               /\ GetEventName(out[1]) = call.rlz
               /\ call.rlz = <<"I">> => out = <<"INSTALL">>
               /\ call.rlz = <<"F">> => out = <<"FIRST_SEARCH">>
          ELSE ~ret /\ out = <<"INVALID_EVENT">>

\* The code T4 followed by a blank has been looked up and rejected.
C28_Witness ==
  /\ call.name = "GetAccessPointFromName"
  /\ call.rlz = <<"T", "4", " ">>
  /\ call.point # "NULL"
  /\ ~ret
  /\ out = <<"NO_ACCESS_POINT">>

RECURSIVE C29_Number(_)
\* The number a run of hex digits denotes.
C29_Number(run) ==
  IF run = <<>> THEN 0
  ELSE 16 * C29_Number(SubSeq(run, 1, Len(run) - 1))
         + GetHexValue(run[Len(run)])

\* The run of hex digits of a text: the longest one that follows the leading
\* blanks and the 0x, if there is one.
C29_Run(text) ==
  LET from == CHOOSE i \in 1..(Len(text) + 1) :
                /\ i = Len(text) + 1 \/ text[i] \notin {" ", "\t"}
                /\ \A j \in 1..(i - 1) : text[j] \in {" ", "\t"}
      start == IF /\ from + 1 <= Len(text)
                  /\ text[from] = "0"
                  /\ text[from + 1] = "x"
               THEN from + 2 ELSE from
      to == CHOOSE i \in start..(Len(text) + 1) :
              /\ i = Len(text) + 1 \/ ~IsHexDigit(text[i])
              /\ \A j \in start..(i - 1) : IsHexDigit(text[j])
  IN  SubSeq(text, start, to - 1)

\* C29: HexStringToInteger(text) skips leading whitespace and an optional 0x
\* prefix, then returns the value of the longest run of hex digits (either
\* case, leading zeros allowed) that follows, ignoring trailing whitespace;
\* it returns 0 for NULL, empty, whitespace-only and bare 0x input, and it
\* stops at the first non-hex character, returning the value parsed so far
\* (12ffg gives 0x12ff, "12f 121" gives 0x12f, g12f gives 0).
C29_HexRunIsRead ==
  call.name = "HexStringToInteger"
    => /\ call.rlz = NULL => ret = <<0, 0>>
       /\ call.rlz # NULL
            => LET run == C29_Run(call.rlz)
                   low == IF Len(run) > 4 THEN Len(run) - 3 ELSE 1
               IN  ret = <<C29_Number(SubSeq(run, 1, low - 1)),
                           C29_Number(SubSeq(run, low, Len(run)))>>
       /\ call.rlz = <<"1", "2", "f", "f", "g">> => ret = <<0, 4863>>
       /\ call.rlz = <<"1", "2", "f", " ", "1", "2", "1">> => ret = <<0, 303>>
       /\ call.rlz = <<"g", "1", "2", "f">> => ret = <<0, 0>>
       /\ call.rlz = <<" ", "\t", " ", "0", "x", " ", " ", " ">>
            => ret = <<0, 0>>

\* A number between blanks, with 0x and leading zeros, has been read.
C29_Witness ==
  /\ call.name = "HexStringToInteger"
  /\ call.rlz = <<" ", "\t", " ", "0", "x", "0", "0", "0", "a", "3", "4",
                  "E", "d", "0", " ", " ", " ">>
  /\ ret = <<163, 20176>>

\* The echo of the current deal code in each valid response: the value of
\* the first line of the validated region that starts with "dcc: ", NULL
\* when there is no such line.
C27_Echo ==
  [response \in C17_ValidResponses |->
     LET text == C17_Region(response)
         header == kDccCgiVariable \o <<":", " ">>
         starts == {b \in C17_LineStarts(text) :
                      /\ Len(C17_Line(text, b)) >= Len(header)
                      /\ SubSeq(C17_Line(text, b), 1, Len(header)) = header}
     IN  IF starts = {} THEN NULL
         ELSE C19_Field(C17_Line(text, Least(starts)), Len(header))]

\* C27: a ping response changes the stored machine deal code only if the
\* response is valid and its echo of the current DCC equals the DCC stored
\* at that moment; for every response whose echoed current DCC differs from
\* the stored one, SetFromPingResponse (and ParsePingResponse, which calls
\* it) leaves the stored DCC unchanged.
C27_DccSetOnlyWithMatchingEcho ==
  [][call'.name \in {"ParsePingResponse", "SetFromPingResponse"}
     => /\ dcc' # dcc
             => /\ call'.response \in C17_ValidResponses
                /\ C27_Echo[call'.response] = dcc
        /\ (/\ call'.response \in C17_ValidResponses
            /\ C27_Echo[call'.response] # dcc)
             => dcc' = dcc]_vars

\* A response that echoes the deal code d1 and carries a new one has been
\* parsed and the new one is stored.
C27_Witness ==
  /\ call.name = "ParsePingResponse"
  /\ call.response \in DccResponses \cap C17_ValidResponses
  /\ C27_Echo[call.response] = <<"d", "1">>
  /\ ret
  /\ dcc = <<"d", "2">>

\* The calls that write to the store.
C24_Writers ==
  {"RecordProductEvent", "ClearProductEvent", "SetAccessPointRlz",
   "ParsePingResponse", "ClearAllProductEvents", "ClearProductState"}

\* What a call that reads the store returns to a caller with write access.
C24_ReadWithWriteAccess ==
  CASE call'.name = "GetProductEventsAsCgi"
         -> GetProductEventsAsCgiOp(call'.product, call'.size, FALSE, "write",
                                    call'.values)
    [] call'.name = "GetAccessPointRlz"
         -> LET r == GetAccessPointRlzOp(Store, call'.point, call'.size, FALSE,
                                         "write")
            IN  [ret |-> r.ret, cgi |-> r.rlz]
    [] call'.name = "GetPingParams"
         -> GetPingParamsOp(Store, call'.product, call'.access_points,
                            call'.size, FALSE, "write")

\* C24: when the owner lacks write permission, RecordProductEvent,
\* ClearProductEvent, SetAccessPointRlz, ParsePingResponse,
\* ClearAllProductEvents and ClearProductState return without changing any
\* stored event, RLZ value or deal code (the value-returning ones report
\* failure); GetProductEventsAsCgi, GetAccessPointRlz and GetPingParams
\* require only read permission and fail with an empty buffer when it is
\* missing.
C24_PermissionsRespected ==
  [][/\ (call'.name \in C24_Writers /\ access # "write")
          => /\ StoreUnchanged
             /\ call'.name # "ClearProductState" => ~ret'
     /\ call'.name \in {"GetProductEventsAsCgi", "GetAccessPointRlz",
                        "GetPingParams"}
          => /\ access = "none" => (~ret' /\ out' = <<>>)
             /\ access = "read"
                  => /\ ret' = C24_ReadWithWriteAccess.ret
                     /\ out' = C24_ReadWithWriteAccess.cgi]_vars

\* ClearProductState has been called by a caller with read access on a store
\* with an event, a stateful event, an RLZ value and a deal code in it.
C24_Witness ==
  /\ call.name = "ClearProductState"
  /\ access = "read"
  /\ events["IE_TOOLBAR"] # {}
  /\ stateful["IE_TOOLBAR"] # {}
  /\ DOMAIN rlzs # {}
  /\ dcc # <<>>

(***************************************************************************)
(* C21: what ClearProductState leaves of a product.                        *)
(***************************************************************************)

\* A key with no subkey and no value.
C21_Empty(st, key) == SubkeyCount(st, key) = 0 /\ ValueCount(st, key) = 0

\* The step is a ClearProductState by an owner with write access.
C21_Clears ==
  /\ call'.name = "ClearProductState"
  /\ ~call'.lock_failed
  /\ access = "write"

\* After the step the product has no event, no stateful event and no last
\* ping time, and no access point of the list has an RLZ.
C21_ValuesCleared ==
  /\ events'[call'.product] = {}
  /\ stateful'[call'.product] = {}
  /\ ping_times'[call'.product] = NoPingTime
  /\ call'.access_points # NULL
       => \A i \in 1..Len(call'.access_points) :
            LET F(r) == r.rlz = <<>> /\ call'.access_points[i] \notin DOMAIN rlzs'
            IN  F(GetAccessPointRlzOp(Store', call'.access_points[i],
                                      kMaxRlzLength + 1, FALSE, access))

\* C21 (as stated): after ClearProductState(P, APs) by an owner with write
\* access P has no transient and no stateful events, no access point of APs
\* has an RLZ, P's last ping time is cleared, and every key that the call
\* left empty has been removed, the stateful-events subkey, the library key
\* and its parents included: an empty key that exists after the call was
\* there and empty before it.
C21_ProductStateRemoved ==
  [][C21_Clears
     => /\ C21_ValuesCleared
        /\ \A key \in keys' :
             C21_Empty(Store', key) => key \in keys /\ C21_Empty(Store, key)]_vars

\* C21 (what holds): the values are cleared as stated, and of the keys that
\* the call left empty only the stateful-events subkey still exists, with
\* the library key and its parents above it.
C21_ProductStateRemovedButStatefulEventsKey ==
  [][C21_Clears
     => /\ C21_ValuesCleared
        /\ \A key \in keys' :
             C21_Empty(Store', key)
               => \/ key = LibSubkey(kStatefulEventsSubkeyName)
                  \/ key \in keys /\ C21_Empty(Store, key)
        /\ LibSubkey(kStatefulEventsSubkeyName) \in keys'
        /\ {kLibKeyName, kGoogleCommonKeyName, kGoogleKeyName} \subseteq keys']_vars

\* ClearProductState has removed the state of a product and the keys of its
\* RLZs, events and ping times, and has left the stateful-events subkey,
\* empty, under the library key.
C21_Witness ==
  /\ call.name = "ClearProductState"
  /\ access = "write"
  /\ call.access_points # NULL
  /\ events[call.product] = {}
  /\ stateful[call.product] = {}
  /\ ping_times[call.product] = NoPingTime
  /\ keys = {kGoogleKeyName, kGoogleCommonKeyName, kLibKeyName,
             LibSubkey(kStatefulEventsSubkeyName)}
  /\ C21_Empty(Store, LibSubkey(kStatefulEventsSubkeyName))


(***************************************************************************)
(* C25, C26: the financial pings and the ping schedule.                    *)
(***************************************************************************)

\* The step is a call that may send a request: SendFinancialPing or
\* PingFinancialServer.
C25_Pings == call'.name \in {"SendFinancialPing", "PingFinancialServer"}

\* The last ping time of the product of the call is the current time after
\* the step.
C25_Updated == ping_times'[call'.product] = now'

\* SendFinancialPing leaves the current time as the last ping time whenever
\* it sent the request.
C25_SendUpdates ==
  call'.name = "SendFinancialPing" /\ call'.sent => C25_Updated

\* PingFinancialServer has given a response and the caller hands it to
\* ParseFinancialPingResponse: the current time is the last ping time then.
C25_HandlingUpdates ==
  (/\ call.name = "PingFinancialServer"
   /\ ret
   /\ call'.name = "ParseFinancialPingResponse"
   /\ call'.product = call.product
   /\ call'.response = out)
  => C25_Updated

\* PingFinancialServer sent the request and the server was not reached:
\* there is no response for the caller to handle.
C25_FailedUpdates ==
  call'.name = "PingFinancialServer" /\ call'.sent /\ ~ret' => C25_Updated

\* A ping that is not forced and is tried while the last ping time is the
\* current time sends nothing.
C25_Throttles ==
  (/\ C25_Pings
   /\ ~call'.skip_time_check
   /\ ping_times[call'.product] = now)
  => ~call'.sent

\* C25 (as stated): whenever a send is attempted for a product, through
\* SendFinancialPing or through PingFinancialServer and the caller's handling
\* of its result, the last ping time of the product is the current time
\* afterwards, whether the send succeeded or failed, and a ping that is not
\* forced and is tried at that time is throttled.
C25_AttemptedSendSetsLastPingTime ==
  [][/\ C25_SendUpdates
     /\ C25_HandlingUpdates
     /\ C25_FailedUpdates
     /\ C25_Throttles]_vars

\* C25 (what holds): the same for SendFinancialPing, and for
\* PingFinancialServer when it gives the caller a response, which the caller
\* hands to ParseFinancialPingResponse.
C25_AnsweredSendSetsLastPingTime ==
  [][/\ C25_SendUpdates
     /\ C25_HandlingUpdates
     /\ C25_Throttles]_vars

\* SendFinancialPing has sent a request at a time after the start, the
\* server was not reached, and the current time is the last ping time.
C25_Witness ==
  /\ call.name = "SendFinancialPing"
  /\ call.sent
  /\ ~ret
  /\ call.response = <<>>
  /\ now > 0
  /\ ping_times[call.product] = now

\* The interval since the last ping of the product is over, or there was no
\* ping of it.
C26_Due(product) ==
  \/ ping_times[product] = NoPingTime
  \/ now - ping_times[product] >= kPingInterval

\* The check of the time that the step makes passes.
C26_Passes ==
  \/ call'.name = "SendFinancialPing" /\ call'.skip_time_check
  \/ C26_Due(call'.product)

\* C26: SendFinancialPing and PingFinancialServer send the request only when
\* the time is right (for SendFinancialPing: or skip_time_check is set);
\* when it is not, the call returns false without sending and leaves the last
\* ping time, the events, the RLZs and the deal code as they are; a
\* SendFinancialPing with skip_time_check sends whatever the last ping time,
\* once the request is formed.
C26_SentOnlyWhenPingTime ==
  [][C25_Pings
     => /\ call'.sent => C26_Passes
        /\ ~C26_Passes
             => /\ ~ret'
                /\ ~call'.sent
                /\ UNCHANGED <<rlzs, events, stateful, dcc, keys, ping_times>>
        /\ (/\ call'.name = "SendFinancialPing"
            /\ call'.skip_time_check
            /\ call'.access_points # NULL)
             => call'.sent]_vars

\* A SendFinancialPing that is not forced was tried before the interval
\* since the last ping was over, and has sent nothing.
C26_Witness ==
  /\ call.name = "SendFinancialPing"
  /\ ~call.skip_time_check
  /\ call.access_points # NULL
  /\ ping_times[call.product] # NoPingTime
  /\ ~C26_Due(call.product)
  /\ ~call.sent
  /\ ~ret


(***************************************************************************)
(* C22, C23, C30: the calls of concurrent callers and the mutex.           *)
(***************************************************************************)

\* The functions C22 names.
C22_Functions ==
  {"RecordProductEvent", "ClearProductEvent", "GetProductEventsAsCgi",
   "GetAccessPointRlz", "SetAccessPointRlz", "GetPingParams",
   "ParsePingResponse", "ClearProductState"}

\* The step constructs the LibMutex of a call: the call starts.
C22_Starts == call'.step \in {"call", "nested"}

\* The values and the keys of the store are as before the step.
C22_Untouched == UNCHANGED <<rlzs, events, stateful, dcc, keys, ping_times>>

\* The mutex is taken as often as its owner is in a call whose LibMutex has
\* acquired, and a caller that is in no call does not have it.
C22_Released ==
  /\ \A caller \in Callers :
       /\ threads[caller] = <<>> => mutex.owner # caller
       /\ mutex.owner = caller
            => mutex.count =
                 Cardinality({i \in 1..Len(threads[caller]) :
                                threads[caller][i].locked})
  /\ mutex.owner = 0 <=> mutex.count = 0

\* What C22 says of a step of one of the functions: a step after the start
\* of the call is made by the owner of the mutex; a call that cannot acquire
\* the mutex is over with its first step, returns false and leaves the store
\* as it is; and the mutex is released when the call is over.
C22_Locked(functions) ==
  call'.name \in functions /\ call'.caller # 0
  => /\ ~C22_Starts => mutex.owner = call'.caller /\ ~call'.lock_failed
     /\ C22_Starts /\ call'.lock_failed
          => /\ ~ret'
             /\ C22_Untouched
             /\ Len(threads'[call'.caller]) = Len(threads[call'.caller])
             /\ UNCHANGED mutex
     /\ C22_Released'

\* C22 (as stated): each of RecordProductEvent, ClearProductEvent,
\* GetProductEventsAsCgi, GetAccessPointRlz, SetAccessPointRlz,
\* GetPingParams, ParsePingResponse and ClearProductState reads and writes
\* the store only while it holds the mutex, returns failure without touching
\* the store when it cannot acquire the mutex, and has released the mutex
\* when it returns.
C22_StoreAccessedUnderLock == [][C22_Locked(C22_Functions)]_vars

\* C22 (what holds): the same of the seven functions other than
\* RecordProductEvent.
C22_StoreAccessedUnderLockButRecord ==
  [][C22_Locked(C22_Functions \ {"RecordProductEvent"})]_vars

\* SetAccessPointRlz was called while the other caller had the mutex: it
\* returned false.
C22_Witness ==
  /\ call.name = "SetAccessPointRlz"
  /\ call.step = "call"
  /\ call.lock_failed
  /\ ~ret
  /\ mutex.owner \notin {0, call.caller}
  /\ threads[call.caller] = <<>>

\* The caller is in a ParsePingResponse.
C23_Parsing(caller) ==
  \E i \in 1..Len(threads[caller]) :
    threads[caller][i].call.name = "ParsePingResponse"

\* The caller is in a RecordProductEvent, between the look-up of the
\* stateful event and the write of the event.
C23_Recording(caller) ==
  /\ threads[caller] # <<>>
  /\ Top(caller).call.name = "RecordProductEvent"
  /\ Top(caller).pc = "write"

\* What C23 says of the calls of the given functions: while a caller is in a
\* ParsePingResponse, no step that another caller makes in one of the
\* functions changes the store.
C23_Serialized(functions) ==
  \A caller \in Callers :
    (/\ C23_Parsing(caller)
     /\ call'.caller \notin {0, caller}
     /\ call'.name \in functions)
    => C22_Untouched

\* What C23 says of RecordProductEvent: between its look-up of the stateful
\* event and its write of the event no step of another caller changes the
\* store.
C23_CheckThenWriteAtomic ==
  \A caller \in Callers :
    C23_Recording(caller) /\ call'.caller \notin {0, caller} => C22_Untouched

\* C23 (as stated): the store mutations of the calls of two callers are
\* never interleaved: no write of a SetAccessPointRlz, RecordProductEvent or
\* ClearProductEvent of one caller takes effect while the other caller is in
\* a ParsePingResponse, and none between the look-up and the write of a
\* RecordProductEvent of the other caller.
C23_MutationsNeverInterleaved ==
  [][/\ C23_Serialized({"SetAccessPointRlz", "RecordProductEvent",
                        "ClearProductEvent"})
     /\ C23_CheckThenWriteAtomic]_vars

\* C23 (what holds): no write of a SetAccessPointRlz or ClearProductEvent of
\* one caller takes effect while the other caller is in a ParsePingResponse.
C23_SetAndClearNeverInterleaved ==
  [][C23_Serialized({"SetAccessPointRlz", "ClearProductEvent"})]_vars

\* ClearProductEvent was called by one caller while the other was in a
\* ParsePingResponse: it returned false and the event is still recorded.
C23_Witness ==
  /\ call.name = "ClearProductEvent"
  /\ call.step = "call"
  /\ call.caller # 0
  /\ \E caller \in Callers \ {call.caller} : C23_Parsing(caller)
  /\ ~ret
  /\ EventValueName(call.point, call.event) \in events[call.product]

\* C30 (as stated): no call constructs a LibMutex while its caller has the
\* mutex, so that with a mutex that its owner cannot take again no call made
\* by ParsePingResponse, GetPingParams or ClearProductState fails on the
\* mutex.
C30_NoNestedAcquisition ==
  [][(/\ C22_Starts
      /\ call'.caller # 0
      /\ call'.name # "ClearLastPingTime")
     => /\ mutex.owner # call'.caller
        /\ ~mutex.recursive /\ call'.step = "nested" => ~call'.lock_failed]_vars

\* C30 (what holds): the calls that ParsePingResponse, GetPingParams and
\* ClearProductState make are made while their caller has the mutex, and they
\* fail on the mutex exactly when its owner cannot take it again.
C30_NestedCallsNeedRecursiveMutex ==
  [][(/\ call'.step = "nested"
      /\ call'.name # "ClearLastPingTime")
     => /\ mutex.owner = call'.caller
        /\ call'.lock_failed <=> ~mutex.recursive]_vars

\* ParsePingResponse has called SetAccessPointRlz while its caller had the
\* mutex, which its owner cannot take again: the call failed on the mutex and
\* the RLZ of the response is not stored.
C30_Witness ==
  /\ call.name = "SetAccessPointRlz"
  /\ call.step = "nested"
  /\ call.lock_failed
  /\ ~mutex.recursive
  /\ mutex.owner = call.caller
  /\ ~ret
  /\ call.point \notin DOMAIN rlzs


\* The responses of the model that pass IsPingResponseValid.
C31_ValidResponses ==
  {response \in AllResponses \ {NULL} : PingResponseValidity[response].ret}

\* The values that C31 is about are the same in two stores.
C31_Same(once, twice) ==
  /\ twice.events = once.events
  /\ twice.stateful = once.stateful
  /\ twice.rlzs = once.rlzs
  /\ twice.dcc = once.dcc

\* ParsePingResponse(product, response, sid) applied to the store st, and
\* then applied again, leaves what the first call left.
C31_TwiceAsOnce(st, product, response) ==
  LET Again(once) ==
        /\ once.ret
        /\ \E twice \in {ParsePingResponseOp(once.st, product, response,
                                             FALSE, access)} :
             twice.ret /\ C31_Same(once.st, twice.st)
  IN  Again(ParsePingResponseOp(st, product, response, FALSE, access))

\* C31: in every state of the store, for every response that passes
\* IsPingResponseValid and every product, ParsePingResponse applied twice in
\* a row leaves the transient events, the stateful events, the RLZ of every
\* access point and the deal code as one application leaves them.
C31_ParsePingResponseIdempotent ==
  access = "write" =>
    \A response \in C31_ValidResponses, product \in Products :
      C31_TwiceAsOnce(Store, product, response)

\* ParsePingResponse has just applied a valid response that stores an RLZ to
\* a store with an event and a deal code, and a second application of the
\* response to this store is the one the claim is about.
C31_Witness ==
  /\ call.name = "ParsePingResponse"
  /\ ~call.lock_failed
  /\ call.response \in C31_ValidResponses
  /\ ret
  /\ access = "write"
  /\ rlzs # <<>>
  /\ dcc # <<>>
  /\ \E product \in Products : events[product] # {}
  /\ C31_TwiceAsOnce(Store, call.product, call.response)


\* The step is a ClearProductState(P, APs).
C32_Clears == call'.name = "ClearProductState"

\* The access point is listed in the access points of the call.
C32_Listed(point) ==
  /\ call'.access_points # NULL
  /\ \E i \in 1..Len(call'.access_points) : call'.access_points[i] = point

\* The keys of the events and of the stateful events of the product.
C32_ProductKeys(product) ==
  {ProductKey(kEventsSubkeyName, product),
   ProductKey(kStatefulEventsSubkeyName, product)}

\* The keys that hold the keys and values of the library.
C32_NamespaceKeys ==
  {LibSubkey(kRlzsSubkeyName), LibSubkey(kEventsSubkeyName),
   LibSubkey(kStatefulEventsSubkeyName), LibSubkey(kPingTimesSubkeyName),
   kLibKeyName, kGoogleCommonKeyName, kGoogleKeyName}

\* The keys directly below a key in a set of keys.
C32_Subkeys(all, key) ==
  {k \in all : Len(k) = Len(key) + 1 /\ SubSeq(k, 1, Len(key)) = key}

\* The step leaves the values of the other products, of the access points
\* that are not listed, and the deal code.
C32_ValuesKept ==
  /\ \A product \in Products \ {call'.product} :
       /\ events'[product] = events[product]
       /\ stateful'[product] = stateful[product]
  /\ \A point \in AccessPoints :
       ~C32_Listed(point)
         => /\ point \in DOMAIN rlzs' <=> point \in DOMAIN rlzs
            /\ point \in DOMAIN rlzs => rlzs'[point] = rlzs[point]
  /\ dcc' = dcc

\* A key that the step has removed is a key of the product, or it has no
\* value left and every key it had below it was removed as well; the keys of
\* the other products stay.
C32_KeysKept ==
  /\ \A key \in keys \ keys' :
       \/ key \in C32_ProductKeys(call'.product)
       \/ /\ key \in C32_NamespaceKeys
               \ {LibSubkey(kStatefulEventsSubkeyName)}
          /\ ValueCount(Store', key) = 0
          /\ C32_Subkeys(keys, key) \cap keys' = {}
  /\ \A product \in Products \ {call'.product} :
       C32_ProductKeys(product) \cap keys \subseteq keys'

\* DeleteKeyIfEmpty on a key of the store: it removes the key only when the
\* key has no subkey and no value, it leaves the store as it is and returns
\* true for a key that does not exist or is not empty, and it changes
\* nothing but the keys.
C32_DeletesOnlyEmptyKeys(st) ==
  \A key \in C32_NamespaceKeys \cup UNION {C32_ProductKeys(product) :
                                              product \in Products} :
    \E deleted \in {DeleteKeyIfEmpty(st, key)} :
      /\ [deleted EXCEPT !.keys = st.keys] = st
      /\ deleted.keys \in {st.keys, RegKeyDeleteKey(st, key).keys}
      /\ deleted.keys # st.keys
           => /\ key \in st.keys
              /\ SubkeyCount(st, key) = 0
              /\ ValueCount(st, key) = 0
      /\ (\/ key \notin st.keys
          \/ SubkeyCount(st, key) > 0
          \/ ValueCount(st, key) > 0)
           => /\ deleted = st
              /\ DeleteKeyIfEmptyReturns(st, key, access)

\* C32: ClearProductState(P, APs) leaves the transient and the stateful
\* events of every product other than P, the RLZ of every access point that
\* is not listed in APs and the deal code, and it removes no key that still
\* holds a value or a subkey: DeleteKeyIfEmpty removes only keys without
\* subkeys and values and returns true for a missing or non-empty key.
C32_ClearProductStateFrame ==
  [][C32_Clears
     => /\ C32_ValuesKept
        /\ C32_KeysKept
        /\ C32_DeletesOnlyEmptyKeys(Store)
        /\ C32_DeletesOnlyEmptyKeys(Store')]_vars

\* ClearProductState has cleared the state of IE_TOOLBAR and the RLZ of
\* IE_DEFAULT_SEARCH, by a caller with write access; the events and stateful
\* events of CHROME, the RLZ of IETB_SEARCH_BOX and the deal code are there,
\* and so are the keys that hold them.
C32_Witness ==
  /\ call.name = "ClearProductState"
  /\ ~call.lock_failed
  /\ access = "write"
  /\ call.product = "IE_TOOLBAR"
  /\ call.access_points = <<"IE_DEFAULT_SEARCH", "NO_ACCESS_POINT">>
  /\ events["IE_TOOLBAR"] = {} /\ stateful["IE_TOOLBAR"] = {}
  /\ events["CHROME"] # {} /\ stateful["CHROME"] # {}
  /\ DOMAIN rlzs = {"IETB_SEARCH_BOX"}
  /\ dcc # <<>>
  /\ C32_ProductKeys("CHROME") \subseteq keys
  /\ C32_ProductKeys("IE_TOOLBAR") \cap keys = {}
  /\ LibSubkey(kRlzsSubkeyName) \in keys
  /\ LibSubkey(kEventsSubkeyName) \in keys


\* The step is a GetProductEventsAsCgi with a buffer of at least one
\* character.
C33_Asked == call'.name = "GetProductEventsAsCgi" /\ call'.size >= 1

\* The string "events=" with no event after it.
C33_Bare == kEventsCgiVariable \o <<"=">>

\* The product of the call has no transient event, or is no product.
C33_NoToken ==
  \/ GetProductName(call'.product) = NULL
  \/ call'.product \in DOMAIN events /\ events[call'.product] = {}

\* The call does not return true with the bare string, and when there is no
\* transient event to report it returns false with the empty string.
C33_Refused ==
  /\ ~(ret' /\ out' = C33_Bare)
  /\ C33_NoToken => ~ret' /\ out' = <<>>

\* C33 (as stated): GetProductEventsAsCgi never returns success with the
\* bare string "events=": whenever the product has no transient event, also
\* when the product value names no product, it returns failure and leaves
\* the buffer empty.
C33_NeverBareEventsString == [][C33_Asked => C33_Refused]_vars

\* C33 (what holds): for a product that has a name the call never returns
\* the bare string and fails with an empty buffer when there is no transient
\* event; for a value that names no product it returns true with "events="
\* whenever the caller has the lock and read access and the buffer has room
\* for more than the seven characters of the prefix.
C33_NeverBareEventsStringOfAProduct ==
  [][C33_Asked
     => IF GetProductName(call'.product) # NULL THEN C33_Refused
        ELSE /\ ret' <=> /\ ~call'.lock_failed
                         /\ access \in {"read", "write"}
                         /\ call'.size > Len(C33_Bare)
             /\ out' = IF ret' THEN C33_Bare ELSE <<>>]_vars

\* GetProductEventsAsCgi has been called with a value that names no product
\* while a product had events, and has returned true with the bare string.
C33_Witness ==
  /\ call.name = "GetProductEventsAsCgi"
  /\ GetProductName(call.product) = NULL
  /\ call.size > Len(C33_Bare)
  /\ ret
  /\ out = C33_Bare
  /\ events["IE_TOOLBAR"] # {}


\* The string in a buffer: the characters before its first null character,
\* and all of them when it holds none.
C34_String(cells) ==
  LET ends == {i \in DOMAIN cells : cells[i] = "NUL"}
  IN  IF ends = {} THEN cells
      ELSE SubSeq(cells, 1, (CHOOSE i \in ends : \A j \in ends : i <= j) - 1)

\* The last call was a GetProductEventsAsCgi with a buffer of at least one
\* character; it changes neither the events nor the keys.
C34_Asked == call.name = "GetProductEventsAsCgi" /\ call.size >= 1

\* The buffer of the last call, whose cells held fill before the call: every
\* index written is within min(cgi_size, kMaxCgiLength + 1), no size
\* computed is below zero, the buffer holds a null character when the call
\* returns, and the string in it is the one the call has left.
C34_WithinBuffer(fill) ==
  LET Bounded(r) ==
        /\ r.ret = ret
        /\ \A index \in r.w.written :
             /\ index >= 0
             /\ index < call.size
             /\ index < kMaxCgiLength + 1
        /\ \A difference \in r.w.sizes : difference >= 0
        /\ \E i \in DOMAIN r.w.cells : r.w.cells[i] = "NUL"
        /\ C34_String(r.w.cells) = out
  IN  Bounded(GetProductEventsAsCgiCells(
                call.product, call.size, call.lock_failed, access,
                call.values,
                ProductKey(kEventsSubkeyName, call.product) \in keys, fill))

\* C34 (as stated): during GetProductEventsAsCgi, for every buffer of at
\* least one character, whatever it held, and every set of stored events,
\* each index written is smaller than min(cgi_size, kMaxCgiLength + 1),
\* cgi_size - (index + divider) is never below zero, and the buffer is
\* null-terminated within its capacity when the call returns.
C34_WritesWithinBufferAndTerminates ==
  C34_Asked => \A fill \in {"NUL", "?"} : C34_WithinBuffer(fill)

\* C34 (what holds): it is so for every product that has a name; for a value
\* that names no product it is so for a buffer that held null characters.
C34_WritesWithinBufferAndTerminatesForAProduct ==
  C34_Asked
    => \A fill \in {"NUL", "?"} :
         GetProductName(call.product) # NULL \/ fill = "NUL"
           => C34_WithinBuffer(fill)

\* GetProductEventsAsCgi has filled a buffer of 20 characters with three
\* events: the string and its terminator take 19 of them, and the loop has
\* computed a size of one character before it found no more events.
C34_Witness ==
  /\ call.name = "GetProductEventsAsCgi"
  /\ ret
  /\ Len(call.values) = 3
  /\ call.size = Len(out) + 2
  /\ call.size < kMaxCgiLength + 1
  /\ C34_WithinBuffer("?")

=============================================================================
